---------------------------- MODULE Spec2Model ----------------------------
(***************************************************************************)
(* A model of the model-evaluation harness: the provider loader and the    *)
(* YAML case loader of test_model_evaluation.py, pytest's parametrization  *)
(* of test_extract_calories, one invocation of test_extract_calories       *)
(* against the completion transport, expect_equality, expect_in_range and  *)
(* expect_approx_pct of helpers/evaluation_helpers.py with Python's float  *)
(* arithmetic, the result hooks of conftest.py with the statistics of the  *)
(* timing table, and the case loader of the nutrition tests.               *)
(*                                                                         *)
(* Encoding of Python values:                                              *)
(*   - an optional value (None or a value) is a set: {} is None, {v} is v; *)
(*   - a dict read from YAML is a function whose DOMAIN is the keys that   *)
(*     are present; the value under a key is an optional value, so a key   *)
(*     that is present with a null value is k :> {};                       *)
(*   - a list is a sequence;                                               *)
(*   - a path is a record [stem, ext];                                     *)
(*   - a text that is searched or parsed is a sequence of one-character    *)
(*     strings.                                                            *)
(***************************************************************************)
EXTENDS Integers, Sequences, FiniteSets, TLC

VARIABLES
    providerFS,        \* PROVIDERS_DIR: provider path -> optional YAML document
    evaluation_path,   \* what EVALUATION_PATH resolves to
    yamlFS,            \* the evaluation directory: yaml path -> optional YAML document
    pc,                \* position of the session
    PROVIDERS,         \* module global PROVIDERS
    EVALUATION_CASES,  \* module global EVALUATION_CASES
    importError,       \* the exception that ended the import, if any
    items,             \* the parametrized test items
    cur,               \* index in items of the invocation in progress (0: none)
    stepIdx,           \* index of the step of the invocation in progress
    expIdx,            \* index of the next expectation of that step
    actual,            \* the stripped reply of the current step
    trace,             \* the completion calls and the expectations evaluated, in order
    outcome,           \* how the last invocation ended
    eqActual,          \* expect_equality: argument actual
    eqExpected,        \* expect_equality: spec["value"]
    eqResult,          \* expect_equality: how the call ended
    numActual,         \* expect_in_range, expect_approx_pct: argument actual
    numSpec,           \* expect_in_range, expect_approx_pct: argument spec
    numResult,         \* expect_in_range, expect_approx_pct: how the call ended
    TEST_RESULTS,      \* conftest global TEST_RESULTS
    TIMING_RESULTS,    \* conftest global TIMING_RESULTS
    reportFile,        \* the file pytest_sessionfinish wrote, if any
    called             \* the items of the session whose call phase was reported

vars == <<providerFS, evaluation_path, yamlFS, pc, PROVIDERS, EVALUATION_CASES,
          importError, items, cur, stepIdx, expIdx, actual, trace,
          outcome, eqActual, eqExpected, eqResult, numActual, numSpec, numResult,
          TEST_RESULTS, TIMING_RESULTS, reportFile, called>>

---------------------------------------------------------------------------
(* Python values *)

None == {}
Some(v) == {v}
Val(o) == CHOOSE v \in o : TRUE
EmptyMap == [k \in {} |-> {}]

\* dict.get(key, default): the default only when the key is absent.
Get(d, k, default) == IF k \in DOMAIN d THEN d[k] ELSE default

\* Truth value of an optional string, list, integer, boolean, path.
TruthyStr(o) == o # None /\ Val(o) # ""
TruthyList(o) == o # None /\ Val(o) # <<>>
TruthyInt(o) == o # None /\ Val(o) # 0
TruthyBool(o) == o # None /\ Val(o)
TruthyPath(o) == o # None

\* a or b
OrStr(a, b) == IF TruthyStr(a) THEN a ELSE b
OrPath(a, b) == IF TruthyPath(a) THEN a ELSE b

\* How a call ends: a value, or an exception.
Ok(v) == [ok |-> TRUE, val |-> v]
Raise(type, msg) == [ok |-> FALSE, type |-> type, msg |-> msg]
RaiseAt(type, msg, file) == [ok |-> FALSE, type |-> type, msg |-> msg, file |-> file]

\* A call that returns None.
Pass == Ok("None")

\* The ascending sequence of a finite set of integers: sorted(...).
RECURSIVE sorted(_)
sorted(S) ==
    IF S = {} THEN <<>>
    ELSE LET lo == CHOOSE x \in S : \A y \in S : x <= y
         IN <<lo>> \o sorted(S \ {lo})

---------------------------------------------------------------------------
(* The file system *)

Path(stem, ext) == [stem |-> stem, ext |-> ext]

\* Files of PROMPT_FOLDER.
PromptFolder == {Path("a", "md"), Path("b", "txt")}
read_text(p) == IF p.stem = "a" THEN "text of a.md" ELSE "text of b.txt"

\* The yaml paths of the evaluation directory, named by their rank in the
\* lexicographic order of paths: 1 is evaluation/a.yaml, 2 is
\* evaluation/sub/b.yaml. A third path, 3, is evaluation/t.yaml.
YamlPaths == {1, 2}
FolderPaths == {1, 2, 3}
parent(yaml_file) == IF yaml_file = 2 THEN "evaluation/sub" ELSE "evaluation"

\* Image files, by directory.
ImageFiles == {<<"evaluation", Path("i", "PNG")>>}
read_bytes(dir, p) == <<"bytes", dir, p.stem>>
b64encode(bytes) == <<"b64", bytes>>
lower(ext) == IF ext = "PNG" THEN "png" ELSE ext

endswith_md(p) == p.ext = "md"

\* A YAML scalar carries its YAML type: [t |-> "int", n |-> 64] is the integer
\* 64, [t |-> "str", s |-> <<"6", "4">>] the string "64".
YInt(n) == [t |-> "int", n |-> n]
YStr(chars) == [t |-> "str", s |-> chars]

Digits == <<"0", "1", "2", "3", "4", "5", "6", "7", "8", "9">>
IsDigit(c) == \E d \in 1..10 : Digits[d] = c
DigitVal(c) == (CHOOSE d \in 1..10 : Digits[d] = c) - 1
Whitespace == {" ", "\n"}

\* The value of a sequence of decimal digits.
RECURSIVE Decimal(_)
Decimal(chars) ==
    IF chars = <<>> THEN 0
    ELSE 10 * Decimal(SubSeq(chars, 1, Len(chars) - 1)) + DigitVal(chars[Len(chars)])

\* str.strip(), str.rstrip(): without the leading and trailing whitespace.
RECURSIVE rstrip(_)
rstrip(chars) ==
    IF chars # <<>> /\ chars[Len(chars)] \in Whitespace
    THEN rstrip(SubSeq(chars, 1, Len(chars) - 1)) ELSE chars
RECURSIVE lstrip(_)
lstrip(chars) ==
    IF chars # <<>> /\ chars[1] \in Whitespace THEN lstrip(Tail(chars)) ELSE chars
strip(chars) == lstrip(rstrip(chars))

\* Whether a text is a decimal integer with an optional minus sign: the
\* numerals of the texts of this model (no '.', 'e', '_', '+', inf, nan).
IsNumeral(chars) ==
    LET body == IF chars # <<>> /\ chars[1] = "-" THEN Tail(chars) ELSE chars
    IN  body # <<>> /\ \A i \in 1..Len(body) : IsDigit(body[i])
NumeralVal(chars) ==
    IF chars[1] = "-" THEN 0 - Decimal(Tail(chars)) ELSE Decimal(chars)

\* int(x) of a YAML scalar or of a text: the number, or ValueError.
int(x) ==
    IF x.t = "int" THEN Ok(x.n)
    ELSE IF IsNumeral(strip(x.s)) THEN Ok(NumeralVal(strip(x.s)))
    ELSE Raise("ValueError", "invalid literal for int() with base 10")

\* sub in text
contains(sub, text) ==
    \E i \in 0..(Len(text) - Len(sub)) : SubSeq(text, i + 1, i + Len(sub)) = sub


---------------------------------------------------------------------------
(* load_evaluation_cases: the YAML loader *)

\* The text parts and the image part of a step, in the order they are appended.
step_content(prompt, prompt_path, image_url) ==
    (IF TruthyStr(prompt)
        THEN <<[type |-> "text", text |-> Val(prompt)]>> ELSE <<>>)
    \o (IF TruthyPath(prompt_path)
        THEN <<[type |-> "text", text |-> read_text(Val(prompt_path))]>> ELSE <<>>)
    \o (IF image_url # None
        THEN <<[type |-> "image_url", image_url |-> [url |-> Val(image_url)]]>>
        ELSE <<>>)

\* The check that a step does not give both a prompt and a prompt file.
both_prompt_and_prompt_path(prompt, prompt_path, top_level_prompt, top_level_prompt_path) ==
    /\ TruthyStr(prompt) /\ ~TruthyStr(top_level_prompt)
    /\ TruthyPath(prompt_path) /\ ~TruthyPath(top_level_prompt_path)

\* The check that a step has something to send.
need_text_or_image(prompt, prompt_path, img_path) ==
    ~(TruthyStr(prompt) \/ TruthyPath(prompt_path)) /\ ~TruthyPath(img_path)

\* The body of the loop over the steps of a test: the parsed step, or the
\* exception the step raises.
parse_step(idx, step, top_level_prompt, top_level_prompt_path, yaml_dir) ==
    LET inp == Val(Get(step, "input", Some(EmptyMap)))
        prompt == OrStr(Get(inp, "prompt", None), top_level_prompt)
        prompt_path == OrPath(Get(inp, "prompt_path", None), top_level_prompt_path)
        img_path == Get(inp, "image_path", None)
        max_tokens == IF Get(inp, "max_tokens", None) # None
                      THEN int(Val(Get(inp, "max_tokens", None)))
                      ELSE Ok(0)
        image_url ==
            IF TruthyPath(img_path)
            THEN Some([fmt |-> lower(Val(img_path).ext),
                       data |-> b64encode(read_bytes(yaml_dir, Val(img_path)))])
            ELSE None
    IN  IF ~max_tokens.ok THEN max_tokens
        ELSE IF need_text_or_image(prompt, prompt_path, img_path)
        THEN Raise("ValueError", "need text or image")
        ELSE IF both_prompt_and_prompt_path(prompt, prompt_path,
                                            top_level_prompt, top_level_prompt_path)
        THEN Raise("ValueError", "cannot have both 'prompt' and 'prompt_path'")
        ELSE IF TruthyPath(prompt_path) /\ ~endswith_md(Val(prompt_path))
        THEN Raise("ValueError", "prompt_path must point to a .md file")
        ELSE IF TruthyPath(img_path) /\ <<yaml_dir, Val(img_path)>> \notin ImageFiles
        THEN Raise("FileNotFoundError", "Image not found")
        ELSE IF TruthyPath(prompt_path) /\ Val(prompt_path) \notin PromptFolder
        THEN Raise("FileNotFoundError", "Prompt file not found")
        ELSE Ok([content |-> step_content(prompt, prompt_path, image_url),
                 max_tokens |-> IF Get(inp, "max_tokens", None) # None
                                THEN Some(max_tokens.val) ELSE None,
                 expectations |-> Val(Get(step, "expectations", Some(<<>>)))])

\* The loop over the steps of a test, from step idx on: the parsed steps, or
\* the first exception.
RECURSIVE parse_steps(_, _, _, _, _)
parse_steps(steps, idx, top_level_prompt, top_level_prompt_path, yaml_dir) ==
    IF idx > Len(steps) THEN Ok(<<>>)
    ELSE LET r == parse_step(idx, steps[idx], top_level_prompt,
                             top_level_prompt_path, yaml_dir)
         IN  IF ~r.ok THEN r
             ELSE LET rest == parse_steps(steps, idx + 1, top_level_prompt,
                                          top_level_prompt_path, yaml_dir)
                  IN  IF ~rest.ok THEN rest ELSE Ok(<<r.val>> \o rest.val)

\* Variant of case_repeat: the top-level repeat wins over the test's own.
case_repeat_top_first(test, top_level_repeat) ==
    IF top_level_repeat # None THEN top_level_repeat
    ELSE Get(test, "repeat", top_level_repeat)

\* repeat and threshold of a test: its own, else the top-level one of its file.
case_repeat(test, top_level_repeat) == Get(test, "repeat", top_level_repeat)
case_threshold(test, top_level_threshold) == Get(test, "threshold", top_level_threshold)

\* The body of the loop over the cases of a file: the loaded test, or the
\* exception it raises.
parse_case(test, data, yaml_dir) ==
    LET top_level_prompt == Get(data, "prompt", None)
        top_level_prompt_path == Get(data, "prompt_path", None)
        top_level_repeat == Get(data, "repeat", Get(data, "repeat", None))
        top_level_threshold == Get(data, "threshold", Get(data, "threshold", None))
        test_id == Get(test, "id", None)
        repeat == case_repeat(test, top_level_repeat)
        threshold == case_threshold(test, top_level_threshold)
        steps == Get(test, "steps", Some(<<>>))
    IN  IF ~TruthyStr(test_id)
        THEN Raise("ValueError", "Every test must have an 'id'.")
        ELSE IF ~TruthyList(steps)
        THEN Raise("ValueError", "must contain at least one step")
        ELSE LET parsed_steps == parse_steps(Val(steps), 1, top_level_prompt,
                                             top_level_prompt_path, yaml_dir)
             IN  IF ~parsed_steps.ok THEN parsed_steps
                 ELSE Ok([id |-> Val(test_id),
                          repeat |-> repeat,
                          threshold |-> threshold,
                          steps |-> parsed_steps.val])

\* Variant of parse_cases: a case that raises is left out and the rest is loaded.
RECURSIVE parse_cases_lenient(_, _, _, _)
parse_cases_lenient(cases, i, data, yaml_dir) ==
    IF i > Len(cases) THEN Ok(<<>>)
    ELSE LET r == parse_case(cases[i], data, yaml_dir)
             rest == parse_cases_lenient(cases, i + 1, data, yaml_dir)
         IN  IF ~r.ok THEN rest ELSE Ok(<<r.val>> \o rest.val)

\* The loop over the cases of a file, from case i on: the loaded tests, or the
\* first exception.
RECURSIVE parse_cases(_, _, _, _)
parse_cases(cases, i, data, yaml_dir) ==
    IF i > Len(cases) THEN Ok(<<>>)
    ELSE LET r == parse_case(cases[i], data, yaml_dir)
         IN  IF ~r.ok THEN r
             ELSE LET rest == parse_cases(cases, i + 1, data, yaml_dir)
                  IN  IF ~rest.ok THEN rest ELSE Ok(<<r.val>> \o rest.val)

\* The body of the loop over the yaml files: the tests of one file, or the
\* exception the file raises.
parse_file(data, yaml_dir) ==
    IF TruthyStr(Get(data, "prompt", None)) /\ TruthyPath(Get(data, "prompt_path", None))
    THEN Raise("ValueError", "Cannot have both 'prompt' and 'prompt_path'.")
    ELSE parse_cases(Val(Get(data, "cases", Some(<<>>))), 1, data, yaml_dir)

\* The loop over yaml_files, from file i on.
RECURSIVE parse_files(_, _, _)
parse_files(fs, yaml_files, i) ==
    IF i > Len(yaml_files) THEN Ok(<<>>)
    ELSE LET r == parse_file(Val(fs[yaml_files[i]]), parent(yaml_files[i]))
         IN  IF ~r.ok THEN r
             ELSE LET rest == parse_files(fs, yaml_files, i + 1)
                  IN  IF ~rest.ok THEN rest ELSE Ok(r.val \o rest.val)

\* The yaml files the loader reads: the file itself, or the sorted recursive glob.
glob_yaml(fs) == {p \in DOMAIN fs : fs[p] # None}
yaml_files_of(ep, fs) ==
    IF ep.kind = "file" THEN <<ep.file>> ELSE sorted(glob_yaml(fs))

\* load_evaluation_cases(): all_tests, or the exception raised.
load_evaluation_cases(ep, fs) ==
    IF ep.kind = "missing"
    THEN Raise("RuntimeError", "Evaluation path not found")
    ELSE IF ep.kind = "file" /\ ~ep.yaml
    THEN Raise("ValueError", "Evaluation file must be a YAML file")
    ELSE IF yaml_files_of(ep, fs) = <<>>
    THEN Raise("RuntimeError", "No YAML files found")
    ELSE parse_files(fs, yaml_files_of(ep, fs), 1)

---------------------------------------------------------------------------
(* nutrition_information_extraction/tests/test_nutrition_extraction.py:    *)
(* load_evaluation_cases, the loader of the nutrition tests                *)

\* Line 113: folder_path.glob("*.yaml"), the yaml files directly in the folder.
glob_folder(fs) == {p \in DOMAIN fs : fs[p] # None /\ parent(p) = "evaluation"}

\* The files on which the loop of lines 113-115 can end: the glob is not
\* sorted, so any file of the folder can come last; 0 when there is none.
last_paths(fs) == IF glob_folder(fs) = {} THEN {0} ELSE glob_folder(fs)

\* load_evaluation_cases() of the nutrition tests, when the loop over the
\* files ends on the file last: all_tests, or the exception raised. Line 111
\* names the variable folder, which does not exist; lines 117-189 read data,
\* the document of the last file, which is unbound when there is no file, and
\* resolve an image from the folder.
nutrition_load_evaluation_cases(ep, fs, last) ==
    IF ep.kind # "dir"
    THEN Raise("NameError", "name 'folder' is not defined")
    ELSE IF last = 0
    THEN Raise("UnboundLocalError", "local variable 'data' referenced before assignment")
    ELSE parse_file(Val(fs[last]), "evaluation")

---------------------------------------------------------------------------
(* The provider loader: the module-level loop over PROVIDERS_DIR *)

\* Provider paths, named by their rank in the lexicographic order of names.
ProviderPaths == {1, 2}

\* The environment: API_KEY is set, no other variable is.
substitute_env_vars(s) == IF s = "${API_KEY}" THEN "secret" ELSE s
substitute_config(cfg) ==
    [k \in DOMAIN cfg |->
        IF k \in {"model", "api_base", "api_key"} /\ cfg[k] # None
        THEN Some(substitute_env_vars(Val(cfg[k]))) ELSE cfg[k]]

\* Variant of provider_disabled: no provider document is skipped.
provider_never_disabled(provider_config) == FALSE

\* Whether the loop skips a provider document.
provider_disabled(provider_config) ==
    ~TruthyBool(Get(provider_config, "_enabled", Some(TRUE)))

\* Whether the loop rejects a provider document.
provider_missing_model(provider_config) == "model" \notin DOMAIN provider_config

\* What the loop appends to PROVIDERS: extra defaulted, _enabled removed.
provider_entry(provider_config) ==
    [k \in (DOMAIN provider_config \ {"_enabled"}) \cup {"extra"} |->
        IF k \in DOMAIN provider_config THEN provider_config[k] ELSE Some(EmptyMap)]

\* The loop from file i of provider_files on: PROVIDERS, or the exception.
RECURSIVE load_providers(_, _, _)
load_providers(fs, provider_files, i) ==
    IF i > Len(provider_files) THEN Ok(<<>>)
    ELSE LET provider_config == substitute_config(Val(fs[provider_files[i]]))
         IN  IF provider_disabled(provider_config)
             THEN load_providers(fs, provider_files, i + 1)
             ELSE IF provider_missing_model(provider_config)
             THEN RaiseAt("ValueError", "missing 'model' field", provider_files[i])
             ELSE LET rest == load_providers(fs, provider_files, i + 1)
                  IN  IF ~rest.ok THEN rest
                      ELSE Ok(<<provider_entry(provider_config)>> \o rest.val)

---------------------------------------------------------------------------
(* pytest.mark.parametrize of test_extract_calories *)

DefaultRepeat == 100
DefaultThreshold == 0

\* The repeated mark of a loaded case.
mark_times(c) == Get(c, "repeat", Some(DefaultRepeat))
mark_threshold(c) == Get(c, "threshold", Some(DefaultThreshold))

\* The test items: one per (provider, case).
parametrize(providers, cases) ==
    [n \in 1..(Len(providers) * Len(cases)) |->
        LET c == cases[((n - 1) % Len(cases)) + 1]
            provider == providers[((n - 1) \div Len(cases)) + 1]
        IN  [id |-> c.id, steps |-> c.steps, provider |-> provider,
             times |-> mark_times(c), threshold |-> mark_threshold(c)]]

---------------------------------------------------------------------------
(* helpers/evaluation_helpers.py: expect_equality *)

\* The values expect_equality compares.
\*
\* A Python value is a tagged record: None, an int (field n), a str (field s,
\* its characters), or a dict (field items).  A dict keeps its items in insertion order as a sequence of
\* [k |-> key, v |-> value] with distinct keys; a key is the sequence of its
\* characters.
PyNone == [t |-> "none"]
PyDict(pairs) == [t |-> "dict", items |-> pairs]
isinstance(x, type) == x.t = type
keys(d) == {d.items[i].k : i \in 1..Len(d.items)}
getitem(d, key) == d.items[CHOOSE i \in 1..Len(d.items) : d.items[i].k = key].v

\* d[key] = value on the items of a dict: an existing key keeps its position.
setitem(pairs, key, value) ==
    IF \E i \in 1..Len(pairs) : pairs[i].k = key
    THEN [i \in 1..Len(pairs) |->
            IF pairs[i].k = key THEN [k |-> key, v |-> value] ELSE pairs[i]]
    ELSE Append(pairs, [k |-> key, v |-> value])

\* x == y of Python: dicts are equal when they hold the same keys with equal
\* values, whatever the order; values of different types are unequal.
RECURSIVE PyEq(_, _)
PyEq(x, y) ==
    IF x.t = "dict" /\ y.t = "dict"
    THEN /\ keys(x) = keys(y)
         /\ \A key \in keys(x) : PyEq(getitem(x, key), getitem(y, key))
    ELSE x = y

\* json.loads(text): the decoder of the standard library on the characters of
\* this model (objects, strings without escapes, decimal integers, null).
NoMatch == [ok |-> FALSE, val |-> PyNone, pos |-> 0]
Matched(value, pos) == [ok |-> TRUE, val |-> value, pos |-> pos]
StartsWith(text, i, word) ==
    /\ i >= 1
    /\ i + Len(word) - 1 <= Len(text)
    /\ SubSeq(text, i, i + Len(word) - 1) = word
skip_ws(text, i) ==
    CHOOSE j \in i..(Len(text) + 1) :
        /\ \A m \in i..(j - 1) : text[m] \in Whitespace
        /\ j = Len(text) + 1 \/ text[j] \notin Whitespace
string_until(text, i, j) ==
    IF \E m \in (i + 1)..(j - 1) : text[m] = "\n"
    THEN NoMatch ELSE Matched(YStr(SubSeq(text, i + 1, j - 1)), j + 1)
scanstring(text, i) ==
    IF \E j \in (i + 1)..Len(text) : text[j] = "\""
    THEN string_until(text, i, CHOOSE j \in (i + 1)..Len(text) :
                                /\ text[j] = "\""
                                /\ \A m \in (i + 1)..(j - 1) : text[m] # "\"")
    ELSE NoMatch
number_to(text, i, s, e) ==
    Matched(YInt(IF s = i THEN Decimal(SubSeq(text, s, e))
                 ELSE 0 - Decimal(SubSeq(text, s, e))), e + 1)
digits_from(text, i, s) ==
    IF s > Len(text) \/ ~IsDigit(text[s]) THEN NoMatch
    ELSE number_to(text, i, s,
            IF text[s] = "0" THEN s
            ELSE CHOOSE e \in s..Len(text) :
                    /\ \A m \in s..e : IsDigit(text[m])
                    /\ e = Len(text) \/ ~IsDigit(text[e + 1]))
match_number(text, i) == digits_from(text, i, IF text[i] = "-" THEN i + 1 ELSE i)

\* scan_once reads one value at i; JSONObject reads the members of an object
\* from the key at i on, through the stages of its loop: the key, the colon,
\* the value, then '}' or ',' and the next key.
RECURSIVE scan_once(_, _), JSONObject(_, _, _), begin_object(_, _),
          after_key(_, _, _), after_colon(_, _, _, _), after_value(_, _, _, _),
          next_member(_, _, _)
scan_once(text, i) ==
    IF i > Len(text) THEN NoMatch
    ELSE IF text[i] = "\"" THEN scanstring(text, i)
    ELSE IF text[i] = "{" THEN begin_object(text, skip_ws(text, i + 1))
    ELSE IF StartsWith(text, i, <<"n", "u", "l", "l">>) THEN Matched(PyNone, i + 4)
    ELSE IF text[i] = "-" \/ IsDigit(text[i]) THEN match_number(text, i)
    ELSE NoMatch
begin_object(text, j) ==
    IF j <= Len(text) /\ text[j] = "}" THEN Matched(PyDict(<<>>), j + 1)
    ELSE JSONObject(text, j, <<>>)
JSONObject(text, i, pairs) ==
    IF i > Len(text) \/ text[i] # "\"" THEN NoMatch
    ELSE after_key(text, pairs, scanstring(text, i))
after_key(text, pairs, key) ==
    IF ~key.ok THEN NoMatch
    ELSE after_colon(text, pairs, key, skip_ws(text, key.pos))
after_colon(text, pairs, key, colon) ==
    IF colon > Len(text) \/ text[colon] # ":" THEN NoMatch
    ELSE after_value(text, pairs, key, scan_once(text, skip_ws(text, colon + 1)))
after_value(text, pairs, key, value) ==
    IF ~value.ok THEN NoMatch
    ELSE next_member(text, setitem(pairs, key.val.s, value.val),
                     skip_ws(text, value.pos))
next_member(text, pairs, e) ==
    IF e > Len(text) THEN NoMatch
    ELSE IF text[e] = "}" THEN Matched(PyDict(pairs), e + 1)
    ELSE IF text[e] = "," THEN JSONObject(text, skip_ws(text, e + 1), pairs)
    ELSE NoMatch
decoded(text, r) ==
    IF r.ok /\ skip_ws(text, r.pos) = Len(text) + 1
    THEN Ok(r.val) ELSE Raise("JSONDecodeError", "invalid JSON")
json_loads(text) == decoded(text, scan_once(text, skip_ws(text, 1)))

\* re.search of the code-fence pattern (three backticks, an optional "json",
\* \s*, a newline, the lazy group (.*?), a newline, three backticks; DOTALL):
\* the leftmost match, with the tag taken when it is there, the longest run of
\* whitespace and the shortest group; its group(1), or None.  The string
\* "BACKTICK" stands for the one backtick character.
Backtick == "BACKTICK"
Fence == <<Backtick, Backtick, Backtick>>
JsonTag == <<"j", "s", "o", "n">>
fence_matches(text) ==
    UNION { UNION { UNION { { [p |-> p, tag |-> tag, ws |-> ws, g |-> g] :
                g \in {g \in 0..Len(text) :
                        StartsWith(text, p + 3 + tag + ws + 1 + g, <<"\n">> \o Fence)} } :
            ws \in {ws \in 0..Len(text) :
                    /\ p + 3 + tag + ws <= Len(text)
                    /\ \A x \in (p + 3 + tag)..(p + 3 + tag + ws - 1) :
                            text[x] \in Whitespace
                    /\ text[p + 3 + tag + ws] = "\n"} } :
        tag \in {tag \in {0, Len(JsonTag)} :
                    tag = 0 \/ StartsWith(text, p + 3, JsonTag)} } :
      p \in {p \in 1..Len(text) : StartsWith(text, p, Fence)} }
fence_preferred(a, b) ==
    \/ a.p < b.p
    \/ a.p = b.p /\ a.tag > b.tag
    \/ a.p = b.p /\ a.tag = b.tag /\ a.ws > b.ws
    \/ a.p = b.p /\ a.tag = b.tag /\ a.ws = b.ws /\ a.g <= b.g
group(text, m) ==
    Some(SubSeq(text, m.p + 3 + m.tag + m.ws + 1, m.p + 3 + m.tag + m.ws + m.g))
preferred_match(text, matches) ==
    IF matches = {} THEN None
    ELSE group(text, CHOOSE a \in matches : \A b \in matches : fence_preferred(a, b))
json_match(text) == preferred_match(text, fence_matches(text))

\* str.find(c) and str.rfind(c), 1-based; 0 stands for -1.
find(text, c) ==
    IF \E i \in 1..Len(text) : text[i] = c
    THEN CHOOSE i \in 1..Len(text) : text[i] = c /\ \A m \in 1..(i - 1) : text[m] # c
    ELSE 0
rfind(text, c) ==
    IF \E i \in 1..Len(text) : text[i] = c
    THEN CHOOSE i \in 1..Len(text) :
            text[i] = c /\ \A m \in (i + 1)..Len(text) : text[m] # c
    ELSE 0

\* _try_parse_json(text): the whole text, else the group of the code fence,
\* else the slice from the first '{' to the last '}'; PyNone when none parses
\* (and when the one that parses is null).
parsed_slice(r) == IF r.ok THEN r.val ELSE PyNone
try_slice(text, first, last) ==
    IF first # 0 /\ last # 0 /\ last > first
    THEN parsed_slice(json_loads(SubSeq(text, first, last)))
    ELSE PyNone
parsed_group(text, r) ==
    IF r.ok THEN r.val ELSE try_slice(text, find(text, "{"), rfind(text, "}"))
try_fence(text, fenced) ==
    IF fenced # None THEN parsed_group(text, json_loads(Val(fenced)))
    ELSE try_slice(text, find(text, "{"), rfind(text, "}"))
parsed_direct(text, direct) ==
    IF direct.ok THEN direct.val ELSE try_fence(text, json_match(text))
try_parse_json(text) == parsed_direct(text, json_loads(text))

\* The comparison of two dicts (got is the actual one): the first key of
\* expected, in its order, whose non-None value got lacks or holds differently
\* raises.
failing_items(got, expected) ==
    {i \in 1..Len(expected.items) :
        /\ expected.items[i].v # PyNone
        /\ \/ expected.items[i].k \notin keys(got)
           \/ ~PyEq(getitem(got, expected.items[i].k), expected.items[i].v)}
failure_at(got, expected, i) ==
    IF expected.items[i].k \notin keys(got)
    THEN Raise("AssertionError", "equality failed for key: key missing in actual")
    ELSE Raise("AssertionError", "equality failed for key: output differs from expected")
first_failure(got, expected, failing) ==
    IF failing # {}
    THEN failure_at(got, expected, CHOOSE i \in failing : \A m \in failing : i <= m)
    ELSE Pass
compare_dicts_without_extra_keys_check(got, expected) ==
    first_failure(got, expected, failing_items(got, expected))
compare_dicts(got, expected) ==
    IF keys(got) \ keys(expected) # {}
    THEN Raise("AssertionError", "equality failed: actual has extra keys")
    ELSE first_failure(got, expected, failing_items(got, expected))

\* expect_equality(actual, spec) with expected = spec["value"]: the text is
\* parsed when a dict is expected, its trailing whitespace is dropped when a
\* str is expected, then the two are compared.
compare(got, expected) ==
    IF isinstance(expected, "dict") /\ isinstance(got, "dict")
    THEN compare_dicts(got, expected)
    ELSE IF ~PyEq(got, expected) THEN Raise("AssertionError", "equality failed")
    ELSE Pass
stripped(got, expected) ==
    compare(IF isinstance(got, "str") /\ isinstance(expected, "str")
            THEN YStr(rstrip(got.s)) ELSE got, expected)
parsed_or(actual_in, parsed) == IF parsed # PyNone THEN parsed ELSE actual_in
expect_equality(actual_in, expected) ==
    stripped(IF isinstance(expected, "dict") /\ isinstance(actual_in, "str")
             THEN parsed_or(actual_in, try_parse_json(actual_in.s))
             ELSE actual_in, expected)

---------------------------------------------------------------------------
(* Python floats: IEEE 754 binary64 with round-to-nearest-even *)

\* A natural number of any size is the sequence of its digits in base 2^14,
\* least significant first, without leading zeros: 16385 is <<1, 1>>, 0 is <<>>.
MantissaBits == 53
LimbBits == 14
Base == 2 ^ LimbBits

RECURSIVE trim(_)
trim(a) == IF a # <<>> /\ a[Len(a)] = 0 THEN trim(SubSeq(a, 1, Len(a) - 1)) ELSE a
RECURSIVE limbs(_)
limbs(n) == IF n = 0 THEN <<>> ELSE <<n % Base>> \o limbs(n \div Base)
limb(a, i) == IF i <= Len(a) THEN a[i] ELSE 0
higher(a) == IF a = <<>> THEN <<>> ELSE Tail(a)
less(a, b) ==
    \/ Len(a) < Len(b)
    \/ /\ Len(a) = Len(b)
       /\ \E i \in 1..Len(a) :
            a[i] < b[i] /\ \A j \in (i + 1)..Len(a) : a[j] = b[j]
RECURSIVE add_carry(_, _, _)
add_carry(a, b, c) ==
    IF a = <<>> /\ b = <<>> THEN (IF c = 1 THEN <<1>> ELSE <<>>)
    ELSE <<(limb(a, 1) + limb(b, 1) + c) % Base>>
         \o add_carry(higher(a), higher(b), (limb(a, 1) + limb(b, 1) + c) \div Base)
add(a, b) == add_carry(a, b, 0)
\* a - b for a >= b.
RECURSIVE sub_borrow(_, _, _)
sub_borrow(a, b, c) ==
    IF a = <<>> THEN <<>>
    ELSE <<(limb(a, 1) + Base - limb(b, 1) - c) % Base>>
         \o sub_borrow(higher(a), higher(b), IF limb(a, 1) - limb(b, 1) - c < 0 THEN 1 ELSE 0)
sub(a, b) == trim(sub_borrow(a, b, 0))
\* a * f + c for one digit f and a carry c.
RECURSIVE scale(_, _, _)
scale(a, f, c) ==
    IF a = <<>> THEN limbs(c)
    ELSE <<(a[1] * f + c) % Base>> \o scale(Tail(a), f, (a[1] * f + c) \div Base)
RECURSIVE mul(_, _)
mul(a, b) ==
    IF a = <<>> \/ b = <<>> THEN <<>>
    ELSE add(scale(a, b[1], 0), trim(<<0>> \o mul(a, Tail(b))))
\* Quotient and remainder of the digits i.. of n by a d of one digit: those of
\* the digits above i, then one more digit of the quotient for the digit n[i].
next_limb(d, b, above) ==
    [q |-> <<(above.r * Base + b) \div d>> \o above.q, r |-> (above.r * Base + b) % d]
RECURSIVE divide_from(_, _, _)
divide_from(n, d, i) ==
    IF i > Len(n) THEN [q |-> <<>>, r |-> 0]
    ELSE next_limb(d, n[i], divide_from(n, d, i + 1))
trimmed(qr) == [q |-> trim(qr.q), r |-> qr.r]
divmod(n, d) == trimmed(divide_from(n, d, 1))
\* a * 2^k and a \div 2^k
shl(a, k) ==
    IF a = <<>> THEN <<>>
    ELSE [i \in 1..(k \div LimbBits) |-> 0] \o scale(a, 2 ^ (k % LimbBits), 0)
shr(a, k) == divmod(SubSeq(a, k \div LimbBits + 1, Len(a)), 2 ^ (k % LimbBits)).q
\* The number of binary digits of a, and the number of its low zero digits.
width(n) == CHOOSE w \in 1..LimbBits : 2 ^ (w - 1) <= n /\ n < 2 ^ w
bit_length(a) == IF a = <<>> THEN 0 ELSE LimbBits * (Len(a) - 1) + width(a[Len(a)])
low_zeros(n) == CHOOSE k \in 0..(LimbBits - 1) : n % (2 ^ k) = 0 /\ n % (2 ^ (k + 1)) # 0
zero_limbs(a) == CHOOSE k \in 0..(Len(a) - 1) : a[k + 1] # 0 /\ \A i \in 1..k : a[i] = 0
trailing_zeros(a) == LimbBits * zero_limbs(a) + low_zeros(a[zero_limbs(a) + 1])
odd(a) == a # <<>> /\ a[1] % 2 = 1

\* A float is [neg, m, e]: the number (-1)^neg * m * 2^e with m odd and of at
\* most 53 digits, or m = 0 and e = 0.  Exponents stay far from the ends of
\* the exponent range for the numbers of this model, so there is no overflow,
\* underflow or subnormal number here.
normal(neg, a, e) ==
    IF a = <<>> THEN [neg |-> neg, m |-> <<>>, e |-> 0]
    ELSE [neg |-> neg, m |-> shr(a, trailing_zeros(a)), e |-> e + trailing_zeros(a)]
\* The float nearest to (-1)^neg * (a + f) * 2^e, where 0 < f < 1 if inexact and
\* f = 0 otherwise; ties go to the even mantissa.  kept is a without its
\* dropped low digits, the digits beyond the 53 that a float holds, low is the
\* number these digits make and half is half a unit of the last digit kept.
round_up(kept, low, half, inexact) ==
    \/ less(half, low)
    \/ low = half /\ (inexact \/ odd(kept))
round_kept(neg, a, e, inexact, dropped, kept) ==
    IF round_up(kept, sub(a, shl(kept, dropped)), shl(<<1>>, dropped - 1), inexact)
    THEN normal(neg, add(kept, <<1>>), e + dropped)
    ELSE normal(neg, kept, e + dropped)
round_dropping(neg, a, e, inexact, dropped) ==
    round_kept(neg, a, e, inexact, dropped, shr(a, dropped))
round(neg, a, e, inexact) ==
    IF bit_length(a) <= MantissaBits THEN normal(neg, a, e)
    ELSE round_dropping(neg, a, e, inexact, bit_length(a) - MantissaBits)

float_from_int(n) == normal(n < 0, limbs(IF n < 0 THEN 0 - n ELSE n), 0)
min_e(x, y) == IF x.e < y.e THEN x.e ELSE y.e
aligned(x, e) == shl(x.m, x.e - e)
fneg(x) == [neg |-> ~x.neg, m |-> x.m, e |-> x.e]
mag_less(x, y) == less(aligned(x, min_e(x, y)), aligned(y, min_e(x, y)))
same_sign_sum(x, y, e) == round(x.neg, add(aligned(x, e), aligned(y, e)), e, FALSE)
difference(x, y, e) ==
    IF less(aligned(x, e), aligned(y, e))
    THEN round(y.neg, sub(aligned(y, e), aligned(x, e)), e, FALSE)
    ELSE IF aligned(x, e) = aligned(y, e) THEN normal(FALSE, <<>>, 0)
    ELSE round(x.neg, sub(aligned(x, e), aligned(y, e)), e, FALSE)
\* x + y, x - y, x * y and x <= y of floats, and x / y for a y not 0 whose
\* mantissa is of one digit, as that of the 100.0 the program divides by.
fadd(x, y) ==
    IF x.neg = y.neg THEN same_sign_sum(x, y, min_e(x, y))
    ELSE difference(x, y, min_e(x, y))
fsub(x, y) == fadd(x, fneg(y))
fmul(x, y) == round(x.neg # y.neg, mul(x.m, y.m), x.e + y.e, FALSE)
quotient_digits(x, y) ==
    IF MantissaBits + 2 + bit_length(y.m) > bit_length(x.m)
    THEN MantissaBits + 2 + bit_length(y.m) - bit_length(x.m) ELSE 0
rounded_quotient(neg, qr, e) == round(neg, qr.q, e, qr.r # 0)
fdiv(x, y) ==
    IF x.m = <<>> THEN normal(x.neg # y.neg, <<>>, 0)
    ELSE rounded_quotient(x.neg # y.neg,
                          divmod(shl(x.m, quotient_digits(x, y)), y.m[1]),
                          x.e - y.e - quotient_digits(x, y))
sgn(x) == IF x.m = <<>> THEN 0 ELSE IF x.neg THEN 0 - 1 ELSE 1
fle(x, y) ==
    IF sgn(x) # sgn(y) THEN sgn(x) < sgn(y)
    ELSE IF sgn(x) = 0 THEN TRUE
    ELSE IF sgn(x) = 1 THEN ~mag_less(y, x)
    ELSE ~mag_less(x, y)

\* float(x) of a YAML scalar or of a text: the float, or ValueError.
float(x) ==
    IF x.t = "int" THEN Ok(float_from_int(x.n))
    ELSE IF IsNumeral(strip(x.s)) THEN Ok(float_from_int(NumeralVal(strip(x.s))))
    ELSE Raise("ValueError", "could not convert string to float")

---------------------------------------------------------------------------
(* helpers/evaluation_helpers.py: expect_in_range and expect_approx_pct *)

\* d[k]: the value, or KeyError.
Index(d, k) == IF k \in DOMAIN d THEN Ok(d[k]) ELSE Raise("KeyError", k)

\* float(x) of an optional YAML scalar.
float_of(o) ==
    IF o = None THEN Raise("TypeError", "float() argument must be a string or a real number")
    ELSE float(Val(o))

\* float(spec[k])
float_at(spec, k) == IF k \in DOMAIN spec THEN float_of(spec[k]) ELSE Index(spec, k)

\* not (lo <= v <= hi)
outside_strictly(lo, v, hi) == ~(fle(lo, v) /\ ~fle(hi, v))
outside(lo, v, hi) == ~(fle(lo, v) /\ fle(v, hi))

in_range(v, lo, hi) ==
    IF ~v.ok THEN v
    ELSE IF ~lo.ok THEN lo
    ELSE IF ~hi.ok THEN hi
    ELSE IF outside(lo.val, v.val, hi.val) THEN Raise("AssertionError", "in_range failed")
    ELSE Pass
expect_in_range(actual_in, spec) ==
    in_range(float(actual_in), float_at(spec, "min"), float_at(spec, "max"))

\* value * (1 - tol_pct / 100.0) and value * (1 + tol_pct / 100.0)
lower_end(value, tol_pct) ==
    fmul(value, fsub(float_from_int(1), fdiv(tol_pct, float_from_int(100))))
upper_end(value, tol_pct) ==
    fmul(value, fadd(float_from_int(1), fdiv(tol_pct, float_from_int(100))))

approx_pct(value, tol_pct, v) ==
    IF ~value.ok THEN value
    ELSE IF ~tol_pct.ok THEN tol_pct
    ELSE IF ~v.ok THEN v
    ELSE IF outside(lower_end(value.val, tol_pct.val), v.val,
                    upper_end(value.val, tol_pct.val))
    THEN Raise("AssertionError", "approx_pct failed")
    ELSE Pass
expect_approx_pct(output, spec) ==
    approx_pct(float_at(spec, "value"), float_at(spec, "tolerance_pct"), float(output))

---------------------------------------------------------------------------
(* test_extract_calories: the expectations of the trial runner *)

\* re.search(pattern, text) for a pattern of literal characters with an
\* optional leading ^ and an optional trailing $.
regex_search(pattern, text) ==
    LET start == pattern # <<>> /\ pattern[1] = "^"
        p1 == IF start THEN Tail(pattern) ELSE pattern
        stop == p1 # <<>> /\ p1[Len(p1)] = "$"
        lit == IF stop THEN SubSeq(p1, 1, Len(p1) - 1) ELSE p1
    IN  \E i \in 0..(Len(text) - Len(lit)) :
            /\ SubSeq(text, i + 1, i + Len(lit)) = lit
            /\ start => i = 0
            /\ stop => i + Len(lit) = Len(text)

\* expect_in_range(actual, spec) of the test module.
test_expect_in_range(text, spec) ==
    LET v == float(YStr(text))
        lo == float_at(spec, "min")
        hi == float_at(spec, "max")
    IN  IF ~v.ok THEN v
        ELSE IF ~lo.ok THEN lo
        ELSE IF ~hi.ok THEN hi
        ELSE IF ~(fle(lo.val, v.val) /\ fle(v.val, hi.val))
        THEN Raise("AssertionError", "in_range failed")
        ELSE Pass

\* expect_approx_pct(actual, spec) of the test module (its second definition,
\* which replaces the first).
test_expect_approx_pct(text, spec) ==
    LET value == float_at(spec, "value")
        tol_pct == float_at(spec, "tolerance_pct")
        v == float(YStr(text))
    IN  IF ~value.ok THEN value
        ELSE IF ~tol_pct.ok THEN tol_pct
        ELSE IF ~v.ok THEN v
        ELSE IF ~(/\ fle(fmul(value.val, fsub(float_from_int(1),
                                              fdiv(tol_pct.val, float_from_int(100)))),
                         v.val)
                  /\ fle(v.val,
                         fmul(value.val, fadd(float_from_int(1),
                                              fdiv(tol_pct.val, float_from_int(100))))))
        THEN Raise("AssertionError", "approx_pct failed")
        ELSE Pass

\* Variant of unknown_expectation: an expectation of no known type is skipped.
unknown_expectation_ignored(expectation) == Pass

\* The else branch of the loop body: the type is none of those tested for.
unknown_expectation(expectation) == Raise("ValueError", "Unknown expectation type")

\* The body of the loop over the expectations of a step.
evaluate(expectation, text) ==
    LET type == Val(expectation["type"])
        value == Index(expectation, "value")
    IN  IF type = "contains"
        THEN IF ~value.ok THEN value
             ELSE IF value.val = None \/ Val(value.val).t # "str"
             THEN Raise("TypeError", "'in <string>' requires string as left operand")
             ELSE IF contains(Val(value.val).s, text) THEN Pass
             ELSE Raise("AssertionError", "response does not contain")
        ELSE IF type = "equals"
        THEN IF ~value.ok THEN value
             ELSE IF value.val # None /\ Val(value.val) = YStr(text) THEN Pass
             ELSE Raise("AssertionError", "response != expected")
        ELSE IF type \in {"regex", "regexp", "regular_expression", "match"}
        THEN IF ~value.ok THEN value
             ELSE IF value.val = None \/ Val(value.val).t # "str"
             THEN Raise("TypeError", "first argument must be string or compiled pattern")
             ELSE IF regex_search(Val(value.val).s, text) THEN Pass
             ELSE Raise("AssertionError", "response does not match regex")
        ELSE IF type \in {"in_range", "range", "within_range"}
        THEN test_expect_in_range(text, expectation)
        ELSE IF type \in {"approx_pct", "approximate_percentage", "percent_error",
                          "within_percentage"}
        THEN test_expect_approx_pct(text, expectation)
        ELSE unknown_expectation(expectation)

---------------------------------------------------------------------------
(* test_extract_calories: one invocation *)

\* Variant of messages: the conversation grows by one step's content per step.
messages_growing(steps, k) ==
    [j \in 1..k |-> [role |-> "user", content |-> steps[j].content]]

\* The message list of the completion call of step k.
messages(steps, k) == <<[role |-> "user", content |-> steps[k].content]>>

\* Whether provider.get(key) is true.
provider_has(provider, key) ==
    IF key = "max_tokens" THEN TruthyInt(Get(provider, key, None))
    ELSE TruthyStr(Get(provider, key, None))

\* The keyword arguments of the completion call of step k.
completion_kwargs(provider, steps, k) ==
    LET allowed_keys == {"model", "api_base", "api_key", "max_tokens"}
        present == {key \in allowed_keys : provider_has(provider, key)}
    IN  [key \in present \cup {"messages"} |->
            IF key = "messages" THEN messages(steps, k) ELSE Val(provider[key])]

\* Variant of next_position: the last expectation of a step is not reached.
next_position_skipping(steps, s, e) ==
    IF e < Len(steps[s].expectations) - 1 THEN <<s, e + 1>>
    ELSE IF s < Len(steps) THEN <<s + 1, 0>>
    ELSE <<0, 0>>

\* Where control goes after expectation e of step s did not raise (e = 0:
\* after the reply of step s was read): <<s, e + 1>> is the next expectation of
\* the step, <<s + 1, 0>> the completion call of the next step, <<0, 0>> the
\* return of the function.
next_position(steps, s, e) ==
    IF e < Len(steps[s].expectations) THEN <<s, e + 1>>
    ELSE IF s < Len(steps) THEN <<s + 1, 0>>
    ELSE <<0, 0>>

\* What the completion transport may answer: a reply with its content, a reply
\* without content, or an exception.
FencedReply ==
    Fence \o JsonTag \o <<"\n", "{", "\"", "a", "\"", ":", " ", "1", "}", "\n">> \o Fence
Replies ==
    {<<"1", "8", "0">>, <<"1", "8", "0", "\n">>, <<"2", "0", "0">>, <<"1", "8">>,
     FencedReply}
Responses ==
    {[kind |-> "reply", content |-> Some(r)] : r \in Replies}
    \cup {[kind |-> "reply", content |-> None], [kind |-> "error", content |-> None]}

NotRun == Raise("", "not run")
Running == Raise("", "running")

---------------------------------------------------------------------------
(* The session: import of the test module, collection, invocations *)

runVars == <<cur, stepIdx, expIdx, actual, trace, outcome>>
eqVars == <<eqActual, eqExpected, eqResult>>
numVars == <<numActual, numSpec, numResult>>
reportVars == <<TEST_RESULTS, TIMING_RESULTS, reportFile, called>>
fsVars == <<providerFS, evaluation_path, yamlFS>>

\* Lines 55-78: the module-level provider loop. An exception ends the import.
ImportProviders ==
    /\ pc = "import_providers"
    /\ LET provider_files == sorted({f \in DOMAIN providerFS : providerFS[f] # None})
           r == load_providers(providerFS, provider_files, 1)
       IN  IF r.ok
           THEN /\ PROVIDERS' = r.val
                /\ pc' = "load_cases"
                /\ UNCHANGED importError
           ELSE /\ pc' = "aborted"
                /\ importError' = Some(r)
                /\ UNCHANGED PROVIDERS
    /\ UNCHANGED <<fsVars, EVALUATION_CASES, items, runVars, eqVars, numVars, reportVars>>

\* Line 227: EVALUATION_CASES = load_evaluation_cases().
LoadEvaluationCases ==
    /\ pc = "load_cases"
    /\ LET r == load_evaluation_cases(evaluation_path, yamlFS)
       IN  IF r.ok
           THEN /\ EVALUATION_CASES' = r.val
                /\ pc' = "parametrize"
                /\ UNCHANGED importError
           ELSE /\ pc' = "aborted"
                /\ importError' = Some(r)
                /\ UNCHANGED EVALUATION_CASES
    /\ UNCHANGED <<fsVars, PROVIDERS, items, runVars, eqVars, numVars, reportVars>>

\* Lines 237-248: the parametrize decorators build the test items.
Parametrize ==
    /\ pc = "parametrize"
    /\ items' = parametrize(PROVIDERS, EVALUATION_CASES)
    /\ pc' = "run"
    /\ UNCHANGED <<fsVars, PROVIDERS, EVALUATION_CASES, importError, runVars, eqVars, numVars, reportVars>>

\* The runner calls test_extract_calories(id, steps, provider) for an item.
Invoke ==
    /\ pc = "run"
    /\ outcome # Running
    /\ \E i \in 1..Len(items) :
        /\ cur' = i
        /\ stepIdx' = 1
        /\ expIdx' = 0
        /\ actual' = <<>>
        /\ trace' = <<>>
        /\ outcome' = Running
    /\ UNCHANGED <<fsVars, pc, PROVIDERS, EVALUATION_CASES, importError, items, eqVars, numVars, reportVars>>

\* Control moves to a position of the loops, or the function returns.
Goto(pos) ==
    IF pos = <<0, 0>>
    THEN /\ outcome' = Pass
         /\ stepIdx' = 0
         /\ expIdx' = 0
    ELSE /\ outcome' = Running
         /\ stepIdx' = pos[1]
         /\ expIdx' = pos[2]

\* The function ends with an exception.
Raised(exc) ==
    /\ outcome' = exc
    /\ stepIdx' = 0
    /\ expIdx' = 0

\* Lines 254-275: the completion call of the current step and the reading of
\* its reply.
Complete ==
    /\ pc = "run"
    /\ outcome = Running
    /\ expIdx = 0
    /\ \E resp \in Responses :
        LET it == items[cur]
            kwargs == completion_kwargs(it.provider, it.steps, stepIdx)
        IN  /\ trace' = Append(trace, [kind |-> "call", step |-> stepIdx, kwargs |-> kwargs,
                                        replied |-> resp.kind = "reply" /\ resp.content # None])
            /\ IF resp.kind = "error"
               THEN /\ Raised(Raise("TransportError", "completion failed"))
                    /\ UNCHANGED actual
               ELSE IF resp.content = None
               THEN /\ Raised(Raise("AttributeError", "'NoneType' object has no attribute 'strip'"))
                    /\ UNCHANGED actual
               ELSE /\ actual' = strip(Val(resp.content))
                    /\ Goto(next_position(it.steps, stepIdx, 0))
    /\ UNCHANGED <<fsVars, pc, PROVIDERS, EVALUATION_CASES, importError, items, cur, eqVars, numVars, reportVars>>

\* Lines 277-290: one iteration of the loop over the expectations of the step.
Evaluate ==
    /\ pc = "run"
    /\ outcome = Running
    /\ expIdx > 0
    /\ LET it == items[cur]
           r == evaluate(it.steps[stepIdx].expectations[expIdx], actual)
       IN  /\ trace' = Append(trace, [kind |-> "eval", step |-> stepIdx,
                                      exp |-> expIdx, ok |-> r.ok])
           /\ IF r.ok THEN Goto(next_position(it.steps, stepIdx, expIdx))
              ELSE Raised(r)
    /\ UNCHANGED <<fsVars, pc, PROVIDERS, EVALUATION_CASES, importError, items, cur,
                   actual, eqVars, numVars, reportVars>>

---------------------------------------------------------------------------
(* The inputs: provider documents and evaluation suites *)

MaxCases == 2          \* cases of the suites of the loader's inputs
MaxLoadSteps == 2      \* steps of a case of the loader's inputs
MaxRunCases == 2       \* cases of a suite that is run
MaxSteps == 2          \* steps of a case that is run
MaxExpectations == 3   \* expectations of a case that is run

ProviderM1 == "model" :> Some("m1")
ProviderM2 ==
    ("model" :> Some("m2")) @@ ("api_base" :> Some("http://host"))
    @@ ("api_key" :> Some("${API_KEY}")) @@ ("max_tokens" :> Some(16))
ProviderOff == ("_enabled" :> Some(FALSE)) @@ ("api_base" :> Some("http://host"))
ProviderNoModel == "api_base" :> Some("http://host")
ProviderOn == ("_enabled" :> Some(TRUE)) @@ ("model" :> Some("m3"))
ProviderDocs == {ProviderM1, ProviderM2, ProviderOff, ProviderNoModel, ProviderOn}

Step(inp, expectations) ==
    ("input" :> Some(inp)) @@ ("expectations" :> Some(expectations))
Case(id, steps) == ("id" :> Some(id)) @@ ("steps" :> Some(steps))
Suite(cases) == "cases" :> Some(cases)
Expect(type, value) == ("type" :> Some(type)) @@ ("value" :> Some(YStr(value)))

Equals180 == Expect("equals", <<"1", "8", "0">>)
Contains8 == Expect("contains", <<"8">>)

PromptQ == "prompt" :> Some("Q")
ImageI == "image_path" :> Some(Path("i", "PNG"))

\* Cases with one defect each, and two cases without.
GoodCase1 == Case("c1", <<Step(PromptQ, <<Equals180>>)>>)
GoodCase2 ==
    Case("c2", <<Step(PromptQ, <<Contains8>>),
                 Step(ImageI @@ ("max_tokens" :> Some(YStr(<<"6", "4">>))), <<>>)>>)
BadCases ==
    {"steps" :> Some(<<Step(PromptQ, <<>>)>>),
     Case("", <<Step(PromptQ, <<>>)>>),
     Case("c3", <<>>),
     Case("c3", <<Step(EmptyMap, <<>>)>>),
     Case("c3", <<Step("prompt_path" :> Some(Path("b", "txt")), <<>>)>>),
     Case("c3", <<Step("prompt_path" :> Some(Path("m", "md")), <<>>)>>),
     Case("c3", <<Step(PromptQ @@ ("image_path" :> Some(Path("x", "png"))), <<>>)>>)}

\* Provider directories and suites of up to MaxRunCases cases, sound or not.
InitMalformed ==
    /\ providerFS \in [ProviderPaths -> {None} \cup {Some(d) : d \in ProviderDocs}]
    /\ evaluation_path = [kind |-> "dir", file |-> 0, yaml |-> FALSE]
    /\ \E n \in 0..MaxRunCases :
        \E cases \in [1..n -> {GoodCase1, GoodCase2} \cup BadCases] :
            yamlFS = [f \in YamlPaths |-> IF f = 1 THEN Some(Suite(cases)) ELSE None]

\* Steps of a case that is run, by the number of their expectations.
TrialInputs ==
    {"prompt" :> Some("Q1"),
     ("prompt" :> Some("Q2")) @@ ("max_tokens" :> Some(YInt(64)))}
TrialSteps(n) ==
    {Step(inp, ex) : inp \in TrialInputs, ex \in [1..n -> {Equals180, Contains8}]}

\* The sequences of k steps with at most budget expectations in all.
RECURSIVE StepSeqs(_, _)
StepSeqs(k, budget) ==
    IF k = 0 THEN {<<>>}
    ELSE UNION {{<<st>> \o rest : st \in TrialSteps(n), rest \in StepSeqs(k - 1, budget - n)}
                : n \in 0..budget}

\* Two enabled providers and one sound case of up to MaxSteps steps.
InitTrial ==
    /\ providerFS = [f \in ProviderPaths |->
                        IF f = 1 THEN Some(ProviderM1) ELSE Some(ProviderM2)]
    /\ evaluation_path = [kind |-> "dir", file |-> 0, yaml |-> FALSE]
    /\ \E k \in 1..MaxSteps :
        \E steps \in StepSeqs(k, MaxExpectations) :
            yamlFS = [f \in YamlPaths |->
                        IF f = 1 THEN Some(Suite(<<Case("c1", steps)>>)) ELSE None]

InitIdle ==
    /\ EVALUATION_CASES = <<>>
    /\ importError = None
    /\ items = <<>>
    /\ cur = 0
    /\ stepIdx = 0
    /\ expIdx = 0
    /\ actual = <<>>
    /\ trace = <<>>
    /\ outcome = NotRun

\* No call of the numeric helpers, and conftest as imported.
InitNum ==
    /\ numActual = 0
    /\ numSpec = 0
    /\ numResult = 0
InitReport ==
    /\ TEST_RESULTS = EmptyMap
    /\ TIMING_RESULTS = EmptyMap
    /\ reportFile = None
    /\ called = {}

InitRest ==
    /\ InitIdle
    /\ eqActual = 0
    /\ eqExpected = 0
    /\ eqResult = 0
    /\ InitNum
    /\ InitReport

InitSession ==
    /\ PROVIDERS = <<>>
    /\ InitRest

\* Expectations of every kind the runner dispatches on, sound and not: an
\* equals on a mapping, ranges with both bounds, without max and with a min
\* that is no number, a regular expression, and a kind the runner does not know.
MaxKindExpectations == 2

EqualsMapping ==
    ("type" :> Some("equals"))
    @@ ("value" :> Some(PyDict(<<[k |-> <<"a">>, v |-> YInt(1)]>>)))
InRange100To200 ==
    ("type" :> Some("in_range")) @@ ("min" :> Some(YInt(100)))
    @@ ("max" :> Some(YStr(<<"2", "0", "0">>)))
InRangeNoMax == ("type" :> Some("range")) @@ ("min" :> Some(YInt(100)))
InRangeBadMin ==
    ("type" :> Some("in_range")) @@ ("min" :> Some(YStr(<<"x">>)))
    @@ ("max" :> Some(YInt(200)))
RegexStarts18 == Expect("regex", <<"^", "1", "8">>)
UnknownKind == Expect("exact", <<"1", "8", "0">>)
ExpectationKinds ==
    {Equals180, Contains8, EqualsMapping, InRange100To200, InRangeNoMax,
     InRangeBadMin, RegexStarts18, UnknownKind}

\* One enabled provider and one case of one step with expectations of these
\* kinds.
InitKinds ==
    /\ providerFS = [f \in ProviderPaths |-> IF f = 1 THEN Some(ProviderM1) ELSE None]
    /\ evaluation_path = [kind |-> "dir", file |-> 0, yaml |-> FALSE]
    /\ \E n \in 1..MaxKindExpectations :
        \E ex \in [1..n -> ExpectationKinds] :
            yamlFS = [f \in YamlPaths |->
                        IF f = 1 THEN Some(Suite(<<Case("c1", <<Step(PromptQ, ex)>>)>>))
                        ELSE None]

Init ==
    /\ pc = "import_providers"
    /\ InitSession
    /\ (InitMalformed \/ InitTrial \/ InitKinds)

Next ==
    \/ ImportProviders
    \/ LoadEvaluationCases
    \/ Parametrize
    \/ Invoke
    \/ Complete
    \/ Evaluate

Spec == Init /\ [][Next]_vars

---------------------------------------------------------------------------
(* The loader alone, on suites that vary what the loader resolves *)

OneStep == <<Step(PromptQ, <<>>)>>

\* Cases that differ in id, repeat and threshold.
MetaCases ==
    {Case(id, OneStep) @@ r @@ t :
        id \in {"c1", "c2"},
        r \in {EmptyMap, "repeat" :> Some(3), "repeat" :> None},
        t \in {EmptyMap, "threshold" :> Some(2)}}

\* Top-level repeat and threshold of a file.
MetaTops ==
    {r @@ t : r \in {EmptyMap, "repeat" :> Some(5)},
              t \in {EmptyMap, "threshold" :> Some(1)}}

\* The documents with n cases; with no case, also the absent file and the
\* document without a cases key.
MetaDocs(n) ==
    {Some(top @@ Suite(cases)) : top \in MetaTops, cases \in [1..n -> MetaCases]}
    \cup (IF n = 0 THEN {None} \cup {Some(top) : top \in MetaTops} ELSE {})

\* Two files with at most MaxCases cases in all.
InitMeta ==
    /\ evaluation_path = [kind |-> "dir", file |-> 0, yaml |-> FALSE]
    /\ \E n1 \in 0..MaxCases :
        \E n2 \in 0..(MaxCases - n1) :
            \E d1 \in MetaDocs(n1), d2 \in MetaDocs(n2) :
                yamlFS = [f \in YamlPaths |-> IF f = 1 THEN d1 ELSE d2]

\* Step inputs that differ in prompt, prompt file and image.
TextInputs ==
    {a @@ b @@ c :
        a \in {EmptyMap, PromptQ},
        b \in {EmptyMap, "prompt_path" :> Some(Path("a", "md")),
               "prompt_path" :> Some(Path("b", "txt"))},
        c \in {EmptyMap, ImageI}}
TextTops ==
    {a @@ b : a \in {EmptyMap, "prompt" :> Some("P")},
              b \in {EmptyMap, "prompt_path" :> Some(Path("a", "md"))}}

\* One file with one case of up to MaxLoadSteps steps.
InitText ==
    /\ evaluation_path = [kind |-> "dir", file |-> 0, yaml |-> FALSE]
    /\ \E k \in 1..MaxLoadSteps :
        \E top \in TextTops, inputs \in [1..k -> TextInputs], f1 \in YamlPaths :
            yamlFS = [f \in YamlPaths |->
                        IF f = f1
                        THEN Some(top @@ Suite(<<Case("c1", [i \in 1..k |-> Step(inputs[i], <<>>)])>>))
                        ELSE None]

\* EVALUATION_PATH naming a yaml file, another file, or nothing.
InitPath ==
    /\ yamlFS \in [YamlPaths -> {None, Some(Suite(<<GoodCase1>>)), Some(Suite(<<GoodCase2>>))}]
    /\ evaluation_path \in
        {[kind |-> "file", file |-> f, yaml |-> TRUE] : f \in {f \in YamlPaths : yamlFS[f] # None}}
        \cup {[kind |-> "file", file |-> 0, yaml |-> FALSE],
              [kind |-> "missing", file |-> 0, yaml |-> FALSE]}

\* The state of the import once the provider loop has run on one provider.
InitLoad ==
    /\ pc = "load_cases"
    /\ InitRest
    /\ providerFS = [f \in ProviderPaths |-> IF f = 1 THEN Some(ProviderM2) ELSE None]
    /\ PROVIDERS = load_providers(providerFS, <<1>>, 1).val
    /\ (InitMeta \/ InitText \/ InitPath)

NextLoad ==
    \/ LoadEvaluationCases
    \/ Parametrize

SpecLoad == InitLoad /\ [][NextLoad]_vars

---------------------------------------------------------------------------
(* Properties of one invocation of test_extract_calories *)

\* The item of the invocation in progress, or of the last one.
CurSteps == items[cur].steps
Invoked == pc = "run" /\ cur # 0

\* The completion calls and expectations of a case in declaration order:
\* <<s, 0>> is the completion call of step s, <<s, e>> its e-th expectation.
RECURSIVE Declared(_, _)
Declared(steps, s) ==
    IF s > Len(steps) THEN <<>>
    ELSE <<<<s, 0>>>> \o [e \in 1..Len(steps[s].expectations) |-> <<s, e>>]
         \o Declared(steps, s + 1)

\* What the invocation did, in the same form.
Done == [i \in 1..Len(trace) |->
            <<trace[i].step, IF trace[i].kind = "call" THEN 0 ELSE trace[i].exp>>]

IsPrefix(a, b) == Len(a) <= Len(b) /\ SubSeq(b, 1, Len(a)) = a

\* Every step's completion call returned a reply with content.
AllReplied ==
    \A s \in 1..Len(CurSteps) :
        \E i \in 1..Len(trace) :
            trace[i].kind = "call" /\ trace[i].step = s /\ trace[i].replied

\* Every expectation of every step was evaluated and succeeded.
AllSucceeded ==
    \A s \in 1..Len(CurSteps) :
        \A e \in 1..Len(CurSteps[s].expectations) :
            \E i \in 1..Len(trace) :
                /\ trace[i].kind = "eval" /\ trace[i].step = s
                /\ trace[i].exp = e /\ trace[i].ok

\* Calls and expectations happen in declaration order.
InDeclarationOrder == IsPrefix(Done, Declared(CurSteps, 1))

\* A failing expectation is the last thing an invocation does.
FailureEndsInvocation ==
    \A i \in 1..Len(trace) :
        (trace[i].kind = "eval" /\ ~trace[i].ok)
            => (i = Len(trace) /\ outcome # Running /\ outcome # Pass)

\* C2, as stated: steps and expectations run in declaration order, the
\* repetition passes if and only if every expectation of every step succeeds,
\* and nothing follows the first failing expectation.
C2_AsStated ==
    Invoked =>
        /\ InDeclarationOrder
        /\ outcome # Running => (outcome = Pass <=> AllSucceeded)
        /\ FailureEndsInvocation

\* C2, amended: steps and expectations run in declaration order; the
\* repetition passes if and only if every step's completion call returns a
\* reply with content and every expectation of every step succeeds; nothing
\* follows the first failing expectation: no later expectation is evaluated
\* and no later completion call is made.
C2_OrderAndShortCircuit ==
    Invoked =>
        /\ InDeclarationOrder
        /\ outcome # Running => (outcome = Pass <=> (AllReplied /\ AllSucceeded))
        /\ FailureEndsInvocation

\* An invocation of a case of two steps ended at a failing expectation of the
\* first step, before the second expectation of that step.
C2_Witness ==
    /\ Invoked
    /\ Len(CurSteps) = 2
    /\ Len(CurSteps[1].expectations) = 2
    /\ outcome.type = "AssertionError"
    /\ Done = <<<<1, 0>>, <<1, 1>>>>

\* The contents of a message list, in order.
Contents(msgs) == [i \in 1..Len(msgs) |-> msgs[i].content]
Calls == {i \in 1..Len(trace) : trace[i].kind = "call"}

\* C3, as stated: the message list of the call of step k holds the content of
\* steps 1..k in order, and no reply of the model.
C3_AsStated ==
    Invoked =>
        \A i \in Calls :
            LET msgs == trace[i].kwargs["messages"]
                k == trace[i].step
            IN  /\ Contents(msgs) = [j \in 1..k |-> CurSteps[j].content]
                /\ \A m \in 1..Len(msgs) : msgs[m].role = "user"

\* C3, amended: the message list of the call of step k is one user message
\* whose content is the content of step k alone; it holds neither the content
\* of an earlier step nor a reply of the model.
C3_OneMessagePerStep ==
    Invoked =>
        \A i \in Calls :
            LET msgs == trace[i].kwargs["messages"]
                k == trace[i].step
            IN  /\ Contents(msgs) = <<CurSteps[k].content>>
                /\ \A m \in 1..Len(msgs) : msgs[m].role = "user"

\* The completion call of a second step whose content differs from the first's.
C3_Witness ==
    /\ Invoked
    /\ \E i \in Calls :
        /\ trace[i].step = 2
        /\ CurSteps[1].content # CurSteps[2].content

\* C4: the call of a step that declares max_tokens carries that value, with
\* the provider's model, api_base and api_key; the call of a step that
\* declares none carries no max_tokens of a step.
C4_StepMaxTokens ==
    Invoked =>
        \A i \in Calls :
            LET kwargs == trace[i].kwargs
                step == CurSteps[trace[i].step]
                provider == items[cur].provider
            IN  /\ step.max_tokens # None =>
                    /\ "max_tokens" \in DOMAIN kwargs
                    /\ kwargs["max_tokens"] = Val(step.max_tokens)
                /\ \A key \in {"model", "api_base", "api_key"} :
                    provider_has(provider, key) =>
                        key \in DOMAIN kwargs /\ kwargs[key] = Val(provider[key])

---------------------------------------------------------------------------
(* Load errors and the run *)

\* The documents of the provider directory and the cases of the suites, as
\* written in the sources.
ProviderDocsIn == {Val(providerFS[f]) : f \in {g \in ProviderPaths : providerFS[g] # None}}
SourceFiles == sorted({f \in YamlPaths : yamlFS[f] # None})
FileCases(f) == Val(Get(Val(yamlFS[f]), "cases", Some(<<>>)))

\* A provider document that is enabled and names no model.
MalformedProvider(doc) ==
    /\ ("_enabled" \in DOMAIN doc => doc["_enabled"] = Some(TRUE))
    /\ "model" \notin DOMAIN doc

\* A step of a suite without top-level defaults that has no text and no
\* image, a prompt file that is not a .md file, or a file that does not exist.
MalformedStep(f, step) ==
    LET inp == IF "input" \in DOMAIN step THEN Val(step["input"]) ELSE EmptyMap
        has(k) == k \in DOMAIN inp /\ inp[k] # None
    IN  \/ ~has("prompt") /\ ~has("prompt_path") /\ ~has("image_path")
        \/ has("prompt_path") /\ Val(inp["prompt_path"]).ext # "md"
        \/ has("prompt_path") /\ Val(inp["prompt_path"]) \notin PromptFolder
        \/ has("image_path") /\ <<parent(f), Val(inp["image_path"])>> \notin ImageFiles

\* A case without id, without steps, or with a malformed step.
MalformedCase(f, c) ==
    \/ "id" \notin DOMAIN c \/ c["id"] \in {None, Some("")}
    \/ "steps" \notin DOMAIN c \/ c["steps"] \in {None, Some(<<>>)}
    \/ \E i \in 1..Len(Val(c["steps"])) : MalformedStep(f, Val(c["steps"])[i])

Malformed ==
    \/ \E doc \in ProviderDocsIn : MalformedProvider(doc)
    \/ \E f \in YamlPaths :
        /\ yamlFS[f] # None
        /\ \E i \in 1..Len(FileCases(f)) : MalformedCase(f, FileCases(f)[i])

\* C9: when a provider or case definition is malformed, the import ends with
\* a load error: no test item exists, no invocation starts and no completion
\* call is made; no case of the load is executed.
C9_LoadErrorBeforeAnyCall ==
    Malformed =>
        /\ pc \in {"import_providers", "load_cases", "aborted"}
        /\ pc = "aborted" => importError # None
        /\ items = <<>> /\ EVALUATION_CASES = <<>>
        /\ cur = 0 /\ trace = <<>>

\* The import aborted on a suite whose first case is sound and whose second
\* is malformed, with a provider loaded.
C9_Witness ==
    /\ pc = "aborted"
    /\ PROVIDERS # <<>>
    /\ yamlFS[1] # None
    /\ Len(FileCases(1)) = 2
    /\ ~MalformedCase(1, FileCases(1)[1])
    /\ MalformedCase(1, FileCases(1)[2])
    /\ trace = <<>>

---------------------------------------------------------------------------
(* Properties of load_evaluation_cases *)

Loaded == pc \in {"parametrize", "run"}

\* The case definitions of the source files the loader reads, in file order
\* and then declaration order, each with its file.
RECURSIVE CasesOf(_, _)
CasesOf(files, i) ==
    IF i > Len(files) THEN <<>>
    ELSE [j \in 1..Len(FileCases(files[i])) |->
            [file |-> files[i], case |-> FileCases(files[i])[j]]]
         \o CasesOf(files, i + 1)
SourceCases ==
    IF evaluation_path.kind = "missing" \/ (evaluation_path.kind = "file" /\ ~evaluation_path.yaml)
    THEN <<>>
    ELSE CasesOf(yaml_files_of(evaluation_path, yamlFS), 1)

\* The source of the case of a test item.
CaseIndex(n) == ((n - 1) % Len(EVALUATION_CASES)) + 1
Declares(d, k) == k \in DOMAIN d

\* C5: a case whose source sets repeat at neither level runs with times 100,
\* and one whose source sets threshold at neither level with threshold 0.
C5_Defaults ==
    (pc = "run" /\ Len(SourceCases) = Len(EVALUATION_CASES)) =>
        \A n \in 1..Len(items) :
            LET src == SourceCases[CaseIndex(n)]
                data == Val(yamlFS[src.file])
            IN  /\ (~Declares(src.case, "repeat") /\ ~Declares(data, "repeat"))
                        => items[n].times = Some(DefaultRepeat)
                /\ (~Declares(src.case, "threshold") /\ ~Declares(data, "threshold"))
                        => items[n].threshold = Some(DefaultThreshold)

\* What a case inherits: its own value of key k when it declares one, else the
\* top-level value of its own file, else nothing.
Inherited(src, k) ==
    IF Declares(src.case, k) THEN src.case[k]
    ELSE IF Declares(Val(yamlFS[src.file]), k) THEN Val(yamlFS[src.file])[k]
    ELSE None

\* C6: the loaded repeat and threshold of every case are the case's own value
\* when the case declares one, and otherwise the top-level value of the same
\* source file; the value of another file never applies.
C6_CaseOverridesFileDefault ==
    Loaded =>
        /\ Len(EVALUATION_CASES) = Len(SourceCases)
        /\ \A j \in 1..Len(EVALUATION_CASES) :
            /\ EVALUATION_CASES[j].repeat = Inherited(SourceCases[j], "repeat")
            /\ EVALUATION_CASES[j].threshold = Inherited(SourceCases[j], "threshold")

\* Loaded: a case of file 1 that inherits that file's repeat, and a case of
\* file 2, which has no top-level repeat, that keeps its own.
C6_Witness ==
    /\ Loaded
    /\ Len(EVALUATION_CASES) = 2
    /\ SourceCases[1].file = 1 /\ SourceCases[2].file = 2
    /\ ~Declares(SourceCases[1].case, "repeat")
    /\ Declares(Val(yamlFS[1]), "repeat")
    /\ ~Declares(Val(yamlFS[2]), "repeat")
    /\ EVALUATION_CASES[1].repeat = Some(5)
    /\ EVALUATION_CASES[2].repeat = Some(3)

\* Two case definitions of the sources carry the same id.
DuplicateIds ==
    \E i, j \in 1..Len(SourceCases) :
        /\ i # j
        /\ Declares(SourceCases[i].case, "id")
        /\ Declares(SourceCases[j].case, "id")
        /\ SourceCases[i].case["id"] = SourceCases[j].case["id"]

\* C7: the load fails when two case definitions carry the same id, in one file
\* or in two; no two loaded cases have the same id.
C7_DuplicateIdsRejected ==
    /\ DuplicateIds => ~Loaded
    /\ Loaded =>
        \A i, j \in 1..Len(EVALUATION_CASES) :
            i # j => EVALUATION_CASES[i].id # EVALUATION_CASES[j].id

\* The texts of the text parts of a loaded step.
TextParts(content) ==
    LET idx == {i \in 1..Len(content) : content[i].type = "text"}
    IN  [n \in 1..Cardinality(idx) |->
            content[CHOOSE i \in idx : Cardinality({h \in idx : h <= i}) = n].text]

\* The text of a step: the first available of the step's prompt, the step's
\* prompt file, the top-level prompt, the top-level prompt file.
Has(d, k) == k \in DOMAIN d /\ d[k] # None
StepInput(step) == IF Has(step, "input") THEN Val(step["input"]) ELSE EmptyMap
FirstAvailableText(inp, data) ==
    IF Has(inp, "prompt") /\ Val(inp["prompt"]) # "" THEN <<Val(inp["prompt"])>>
    ELSE IF Has(inp, "prompt_path") THEN <<read_text(Val(inp["prompt_path"]))>>
    ELSE IF Has(data, "prompt") /\ Val(data["prompt"]) # "" THEN <<Val(data["prompt"])>>
    ELSE IF Has(data, "prompt_path") THEN <<read_text(Val(data["prompt_path"]))>>
    ELSE <<>>

\* C8: every loaded step carries at most one text part, the first available
\* of step prompt, step prompt file, top-level prompt, top-level prompt file,
\* never a prompt and a prompt file together; a step with no text and no
\* image is rejected.
C8_OneTextPart ==
    (Loaded /\ Len(SourceCases) = Len(EVALUATION_CASES)) =>
        \A j \in 1..Len(EVALUATION_CASES) :
            LET src == SourceCases[j]
                data == Val(yamlFS[src.file])
                steps == Val(src.case["steps"])
            IN  \A k \in 1..Len(steps) :
                    LET parts == TextParts(EVALUATION_CASES[j].steps[k].content)
                    IN  /\ Len(parts) <= 1
                        /\ parts = FirstAvailableText(StepInput(steps[k]), data)
                        /\ EVALUATION_CASES[j].steps[k].content # <<>>

----------------------------------------------------------------------------
\* A test of the helper calls expect_equality(actual, {"value": expected}) once.
ExpectEquality ==
    /\ pc = "expect_equality"
    /\ eqResult' = expect_equality(eqActual, eqExpected)
    /\ pc' = "done"
    /\ UNCHANGED <<fsVars, PROVIDERS, EVALUATION_CASES, importError, items,
                   runVars, eqActual, eqExpected, numVars, reportVars>>

----------------------------------------------------------------------------
\* The helper on its own: the values the tests of expect_equality hand it,
\* dicts over two keys in both orders, the JSON texts of dicts as a model
\* writes them (bare, in a code fence with and without the tag, inside prose),
\* and scalars.
MaxEqInt == 2

EqKeys == {<<"a">>, <<"b">>}
EqItemValues == {PyNone, YStr(<<"x">>)} \cup {YInt(n) : n \in 1..MaxEqInt}
EqDicts ==
    {PyDict(<<>>)}
    \cup {PyDict(<<[k |-> key, v |-> value]>>) : key \in EqKeys, value \in EqItemValues}
    \cup {PyDict(<<[k |-> <<"a">>, v |-> va], [k |-> <<"b">>, v |-> vb]>>) :
            va \in EqItemValues, vb \in EqItemValues}
    \cup {PyDict(<<[k |-> <<"b">>, v |-> vb], [k |-> <<"a">>, v |-> va]>>) :
            va \in EqItemValues, vb \in EqItemValues}

\* json.dumps(value): the text a dict is written as.
RECURSIVE numeral(_)
numeral(n) ==
    IF n < 10 THEN <<Digits[n + 1]>>
    ELSE numeral(n \div 10) \o <<Digits[(n % 10) + 1]>>
dumps_scalar(value) ==
    IF value.t = "none" THEN <<"n", "u", "l", "l">>
    ELSE IF value.t = "int" THEN numeral(value.n)
    ELSE <<"\"">> \o value.s \o <<"\"">>
RECURSIVE dumps_items(_)
dumps_items(pairs) ==
    IF pairs = <<>> THEN <<>>
    ELSE <<"\"">> \o pairs[1].k \o <<"\"", ":", " ">> \o dumps_scalar(pairs[1].v)
         \o (IF Len(pairs) > 1 THEN <<",", " ">> ELSE <<>>)
         \o dumps_items(Tail(pairs))
dumps(d) == <<"{">> \o dumps_items(d.items) \o <<"}">>

EqWritten == {d \in EqDicts : Len(d.items) = 2 => d.items[1].k = <<"a">>}
EqTexts ==
    {YStr(dumps(d)) : d \in EqWritten}
    \cup {YStr(Fence \o JsonTag \o <<"\n">> \o dumps(d) \o <<"\n">> \o Fence) :
            d \in EqWritten}
    \cup {YStr(Fence \o <<"\n">> \o dumps(d) \o <<"\n">> \o Fence) : d \in EqWritten}
    \cup {YStr(<<"x", " ">> \o dumps(d) \o <<" ", "x">>) : d \in EqWritten}
    \cup {YStr(<<"x">>), YStr(<<"x", "\n">>), YStr(<<"1">>), YStr(<<"n", "u", "l", "l">>)}
EqValues == EqDicts \cup EqTexts \cup {PyNone, YInt(1)}

InitEq ==
    /\ pc = "expect_equality"
    /\ providerFS = [f \in ProviderPaths |-> None]
    /\ evaluation_path = [kind |-> "dir", file |-> 0, yaml |-> FALSE]
    /\ yamlFS = [f \in YamlPaths |-> None]
    /\ PROVIDERS = <<>>
    /\ InitIdle
    /\ eqActual \in EqValues
    /\ eqExpected \in EqValues
    /\ eqResult = 0
    /\ InitNum
    /\ InitReport

NextEq ==
    \/ ExpectEquality

SpecEq == InitEq /\ [][NextEq]_vars

----------------------------------------------------------------------------
\* Properties of expect_equality.

Compared == pc = "done"
BothMappings == isinstance(eqActual, "dict") /\ isinstance(eqExpected, "dict")

\* What each side holds, without the order of its items: the value under each
\* key it has.
Holds(d, key) == key \in keys(d)
Under(d, key) == getitem(d, key)
NoExtraKey == \A key \in EqKeys : Holds(eqActual, key) => Holds(eqExpected, key)
NonNullKeysAgree ==
    \A key \in EqKeys :
        (Holds(eqExpected, key) /\ Under(eqExpected, key) # PyNone)
            => /\ Holds(eqActual, key)
               /\ Under(eqActual, key) = Under(eqExpected, key)

\* C10: for mappings actual and expected, expect_equality succeeds if and only
\* if actual has no key that is absent from expected and, for every key of
\* expected whose value is non-null, actual has that key with an equal value;
\* a key of expected whose value is null is not required in actual, and the
\* order of the keys on either side does not matter.
C10_MappingEquality ==
    (Compared /\ BothMappings)
        => (eqResult.ok <=> (NoExtraKey /\ NonNullKeysAgree))

\* C10 happens: expected {b: null, a: 1} is met by actual {a: 1}, which lacks
\* the null-valued key, and expected {b: 2, a: 1} by actual {a: 1, b: 2}, which
\* holds the keys in the other order.
C10_Witness ==
    /\ Compared
    /\ BothMappings
    /\ eqResult.ok
    /\ Len(eqExpected.items) = 2
    /\ eqExpected.items[1].k = <<"b">>
    /\ Holds(eqActual, <<"a">>)
    /\ eqActual.items[1].k = <<"a">>
    /\ \/ eqExpected.items[1].v = PyNone /\ Len(eqActual.items) = 1
       \/ eqExpected.items[1].v # PyNone /\ Len(eqActual.items) = 2

----------------------------------------------------------------------------
(* expect_in_range and expect_approx_pct called on their own *)

ExpectInRange ==
    /\ pc = "expect_in_range"
    /\ numResult' = expect_in_range(numActual, numSpec)
    /\ pc' = "done"
    /\ UNCHANGED <<fsVars, PROVIDERS, EVALUATION_CASES, importError, items,
                   runVars, eqVars, numActual, numSpec, reportVars>>

ExpectApproxPct ==
    /\ pc = "expect_approx_pct"
    /\ numResult' = expect_approx_pct(numActual, numSpec)
    /\ pc' = "done"
    /\ UNCHANGED <<fsVars, PROVIDERS, EVALUATION_CASES, importError, items,
                   runVars, eqVars, numActual, numSpec, reportVars>>

\* The numbers of the calls: integers and their numerals, as a number and as a
\* text, and a text that is no number.
MaxNum == 3
MaxTarget == 100
MaxOutput == 111

signed_numeral(n) == IF n < 0 THEN <<"-">> \o numeral(0 - n) ELSE numeral(n)
Written(ns) == {YInt(n) : n \in ns} \cup {YStr(signed_numeral(n)) : n \in ns}
NotANumber == YStr(<<"x">>)
RangeNumbers == Written((0 - MaxNum)..MaxNum)
Targets == Written({0 - MaxTarget, 0 - 10, 0, 10, MaxTarget})
Tolerances == Written({0, 10, 70})
Outputs == Written((0 - MaxOutput)..MaxOutput)

InRangeSpec(min, max) ==
    ("type" :> Some("in_range")) @@ ("min" :> Some(min)) @@ ("max" :> Some(max))
ApproxPctSpec(value, tolerance_pct) ==
    ("type" :> Some("approx_pct")) @@ ("value" :> Some(value))
        @@ ("tolerance_pct" :> Some(tolerance_pct))

InitInRange ==
    /\ pc = "expect_in_range"
    /\ numActual \in RangeNumbers \cup {NotANumber}
    /\ \E min \in RangeNumbers, max \in RangeNumbers : numSpec = InRangeSpec(min, max)
InitApproxPct ==
    /\ pc = "expect_approx_pct"
    /\ numActual \in Outputs \cup {NotANumber}
    /\ \E value \in Targets, tolerance_pct \in Tolerances :
            numSpec = ApproxPctSpec(value, tolerance_pct)

InitNumeric ==
    /\ providerFS = [f \in ProviderPaths |-> None]
    /\ evaluation_path = [kind |-> "dir", file |-> 0, yaml |-> FALSE]
    /\ yamlFS = [f \in YamlPaths |-> None]
    /\ PROVIDERS = <<>>
    /\ InitIdle
    /\ eqActual = 0
    /\ eqExpected = 0
    /\ eqResult = 0
    /\ numResult = 0
    /\ InitReport
    /\ (InitInRange \/ InitApproxPct)

NextNum ==
    \/ ExpectInRange
    \/ ExpectApproxPct

SpecNum == InitNumeric /\ [][NextNum]_vars

---------------------------------------------------------------------------
(* Properties of the expectations *)

\* The expectation the invocation evaluated last, and whether it held.
LastEval == trace[Len(trace)]
Evaluated == Invoked /\ trace # <<>> /\ LastEval.kind = "eval"
LastExpectation == CurSteps[LastEval.step].expectations[LastEval.exp]
ExpectsMapping(expectation) ==
    /\ Val(expectation["type"]) = "equals"
    /\ "value" \in DOMAIN expectation
    /\ expectation["value"] # None
    /\ isinstance(Val(expectation["value"]), "dict")

\* C11: an equals expectation on a mapping is met by a returned text from
\* which the mapping can be extracted (the whole text, else a fenced code
\* block, else the slice from the first '{' to the last '}'), also when the
\* trial runner evaluates it on the text a step returned.
C11_RunnerExtractsMapping ==
    (Evaluated /\ ExpectsMapping(LastExpectation)
        /\ expect_equality(YStr(actual), Val(LastExpectation["value"])).ok)
        => LastEval.ok

\* C12: expect_equality raises AssertionError whenever actual is a string and
\* the expected value is a mapping, also when the string is the JSON text of a
\* mapping equal to expected.
C12_StringAgainstMappingRaises ==
    (Compared /\ isinstance(eqActual, "str") /\ isinstance(eqExpected, "dict"))
        => (~eqResult.ok /\ eqResult.type = "AssertionError")

\* The number a written value stands for: the integer n of YInt(n) and of the
\* text of its numeral.
Numbers ==
    ((0 - MaxNum)..MaxNum) \cup ((0 - MaxTarget)..MaxTarget) \cup ((0 - MaxOutput)..MaxOutput)
NumberOf(x) == CHOOSE n \in Numbers : x \in Written({n})
Called(helper) == pc = "done" /\ Val(numSpec["type"]) = helper
Output == NumberOf(numActual)
Min == NumberOf(Val(numSpec["min"]))
Max == NumberOf(Val(numSpec["max"]))
Target == NumberOf(Val(numSpec["value"]))
Tolerance == NumberOf(Val(numSpec["tolerance_pct"]))
Failed(result, type, msg) == ~result.ok /\ result.type = type /\ result.msg = msg

\* C13: for numeric actual, min and max, given as numbers or as numeric
\* strings, expect_in_range succeeds if and only if min <= actual <= max, both
\* bounds included; otherwise it raises AssertionError 'in_range failed'; an
\* actual that is no number raises the error of the parse, ValueError, and
\* does not return.
C13_InRangeInclusive ==
    Called("in_range") =>
        IF numActual = NotANumber
        THEN Failed(numResult, "ValueError", "could not convert string to float")
        ELSE IF Min <= Output /\ Output <= Max THEN numResult = Pass
        ELSE Failed(numResult, "AssertionError", "in_range failed")

\* C13 happens: an actual given as a numeric string that equals the upper
\* bound, above the lower bound, is accepted.
C13_Witness ==
    /\ Called("in_range")
    /\ numActual # NotANumber
    /\ numActual.t = "str"
    /\ Min < Max
    /\ Output = Max
    /\ numResult = Pass

\* C14: for target value v and tolerance t percent, expect_approx_pct succeeds
\* if and only if v * (1 - t/100) <= actual <= v * (1 + t/100), both ends
\* included, the window being that of the target v.
C14_WindowFromTarget ==
    (Called("approx_pct") /\ numActual # NotANumber) =>
        (numResult.ok <=> /\ Target * (100 - Tolerance) <= 100 * Output
                          /\ 100 * Output <= Target * (100 + Tolerance))

\* C15: expect_approx_pct passes whenever the output equals the target value,
\* for every target value, positive, zero or negative, and every
\* tolerance_pct >= 0.
C15_ExactValuePasses ==
    (Called("approx_pct") /\ numActual # NotANumber /\ Tolerance >= 0 /\ Output = Target)
        => numResult.ok

\* The types of expectation the trial runner tests for, and whether a case
\* holds an expectation of another type.
RecognisedKinds ==
    {"contains", "equals", "regex", "regexp", "regular_expression", "match",
     "in_range", "range", "within_range", "approx_pct", "approximate_percentage",
     "percent_error", "within_percentage"}
OfUnknownKind(expectation) == Val(expectation["type"]) \notin RecognisedKinds
HoldsUnknownKind(steps) ==
    \E s \in 1..Len(steps) :
        \E e \in 1..Len(steps[s].expectations) : OfUnknownKind(steps[s].expectations[e])

\* C16: an expectation whose type is none of the recognised kinds is never
\* silently ignored: no repetition of a case that holds one passes, and when
\* evaluation reaches it the error raised is ValueError 'Unknown expectation
\* type', not an AssertionError.
C16_UnknownKindFailsLoudly ==
    Invoked =>
        /\ HoldsUnknownKind(CurSteps) => outcome # Pass
        /\ (Evaluated /\ OfUnknownKind(LastExpectation))
            => outcome = Raise("ValueError", "Unknown expectation type")

\* C16 happens: the expectation of unknown type is reached after an
\* expectation before it held, and the repetition ends with the ValueError.
C16_Witness ==
    /\ Evaluated
    /\ OfUnknownKind(LastExpectation)
    /\ LastEval.exp = 2
    /\ trace[Len(trace) - 1].kind = "eval"
    /\ trace[Len(trace) - 1].ok
    /\ outcome.type = "ValueError"

\* Why a repetition failed: the completion call or the reading of its reply
\* failed, or an expectation that is well formed was not met by the reply, or
\* the expectation that failed is of unknown kind or has malformed fields.
IsNumber(o) == o # None /\ (Val(o).t = "int" \/ (Val(o).t = "str" /\ IsNumeral(strip(Val(o).s))))
IsText(o) == o # None /\ Val(o).t = "str"
Field(expectation, k) == Get(expectation, k, None)
WellFormed(expectation) ==
    LET type == Val(expectation["type"])
    IN  /\ ~OfUnknownKind(expectation)
        /\ type \in {"contains", "regex", "regexp", "regular_expression", "match"}
            => IsText(Field(expectation, "value"))
        /\ type = "equals" => "value" \in DOMAIN expectation
        /\ type \in {"in_range", "range", "within_range"}
            => IsNumber(Field(expectation, "min")) /\ IsNumber(Field(expectation, "max"))
        /\ type \in {"approx_pct", "approximate_percentage", "percent_error",
                     "within_percentage"}
            => /\ IsNumber(Field(expectation, "value"))
               /\ IsNumber(Field(expectation, "tolerance_pct"))
FailedRepetition == Invoked /\ trace # <<>> /\ outcome # Running /\ outcome # Pass
Cause ==
    IF LastEval.kind = "call" THEN "transport_error"
    ELSE IF WellFormed(LastExpectation) THEN "assertion_error"
    ELSE "spec_error"
\* The reason that the error of a failed repetition tells: an AssertionError is
\* an expectation mismatch, the errors of the completion call and of the
\* reading of its reply are transport errors, and the ValueError of an unknown
\* kind, like the other errors of evaluating an expectation, is a spec error.
ReasonOf(error) ==
    IF error.type = "AssertionError" THEN "assertion_error"
    ELSE IF error.type \in {"TransportError", "AttributeError"} THEN "transport_error"
    ELSE "spec_error"

\* C17: every failed repetition carries exactly one of the three failure
\* reasons transport_error, assertion_error and spec_error, and the reason can
\* be told from the error alone: no two of the causes produce the same kind of
\* error.
C17_ReasonFromErrorAlone == FailedRepetition => ReasonOf(outcome) = Cause

----------------------------------------------------------------------------
\* Properties of the provider loader.

\* The provider sources, those that declare themselves disabled, and those
\* that have no model field.
Sources == {f \in ProviderPaths : providerFS[f] # None}
Document(f) == Val(providerFS[f])
Disabled(f) ==
    "_enabled" \in DOMAIN Document(f) /\ Document(f)["_enabled"] # Some(TRUE)
EnabledSources == {f \in Sources : ~Disabled(f)}
LacksModel(f) == "model" \notin DOMAIN Document(f)
Offending == {f \in EnabledSources : LacksModel(f)}
\* The place of an enabled source among the enabled sources in the order of
\* the file names.
Rank(f) == Cardinality({g \in EnabledSources : g <= f})
\* The provider of a source: its fields other than _enabled, with the
\* environment's values for the placeholders, and extra.
Resolved(doc) ==
    [k \in (DOMAIN doc \ {"_enabled"}) \cup {"extra"} |->
        IF k \notin DOMAIN doc THEN Some(EmptyMap)
        ELSE IF k \in {"model", "api_base", "api_key"} /\ doc[k] # None
        THEN Some(substitute_env_vars(Val(doc[k])))
        ELSE doc[k]]
ProvidersLoaded == pc # "import_providers"
MissingModelError ==
    /\ importError # None
    /\ Val(importError).type = "ValueError"
    /\ Val(importError).msg = "missing 'model' field"

\* C18: the loaded provider list is exactly the provider sources that are not
\* disabled, in the lexicographic order of the source file names; a disabled
\* source is skipped without error whatever else it contains; loading fails,
\* with an error that names the source, if and only if some enabled source
\* has no model field.
C18_EnabledProvidersInOrder ==
    ProvidersLoaded =>
        IF Offending # {}
        THEN /\ pc = "aborted"
             /\ MissingModelError
             /\ Val(importError).file \in Offending
             /\ PROVIDERS = <<>>
        ELSE /\ ~MissingModelError
             /\ Len(PROVIDERS) = Cardinality(EnabledSources)
             /\ \A f \in EnabledSources : PROVIDERS[Rank(f)] = Resolved(Document(f))

\* C18 happens: the first source is disabled and has no model field, the
\* second is enabled, and the list that is loaded is the second source alone.
C18_Witness ==
    /\ ProvidersLoaded
    /\ Sources = {1, 2}
    /\ Disabled(1)
    /\ LacksModel(1)
    /\ EnabledSources = {2}
    /\ Len(PROVIDERS) = 1
    /\ PROVIDERS[1]["model"] = Document(2)["model"]

----------------------------------------------------------------------------
(* conftest.py: the results recorded per test and the report of the session *)

\* The order of Python on the strings of the report. A provider name is kept
\* as its parts, <<model>> or <<model, " on ", api_base>>; no string of the
\* model begins another, so the order of two names is that of the first part
\* in which they differ, and a name that begins another comes first.
Alphabet == <<" on ", "c1", "c2", "http://host", "m1", "m2">>
ord(str) == CHOOSE i \in 1..Len(Alphabet) : Alphabet[i] = str
name_less(a, b) ==
    \E i \in 1..Len(b) :
        /\ \A j \in 1..(i - 1) : j <= Len(a) /\ a[j] = b[j]
        /\ i > Len(a) \/ ord(a[i]) < ord(b[i])
\* sorted(...) of a set of test ids and of a set of provider names.
sorted_ids(S) == [i \in 1..Cardinality(S) |-> Alphabet[sorted({ord(id) : id \in S})[i]]]
RECURSIVE sorted_names(_)
sorted_names(S) ==
    IF S = {} THEN <<>>
    ELSE LET first == CHOOSE a \in S : \A b \in S \ {a} : name_less(a, b)
         IN  <<first>> \o sorted_names(S \ {first})

\* d[k] = v
put(d, k, v) == [x \in DOMAIN d \cup {k} |-> IF x = k THEN v ELSE d[x]]

\* Line 30: the name under which a provider's results are kept.
provider_name(provider) ==
    IF TruthyStr(Get(provider, "api_base", None))
    THEN <<Val(provider["model"]), " on ", Val(provider["api_base"])>>
    ELSE <<Val(provider["model"])>>

\* Whether pytest_runtest_makereport records anything for an item: the report
\* is that of the call phase of a test_extract_calories item with parameters,
\* a test id and a provider that are not empty, and a summary of its
\* repetitions.
records(item, when) ==
    /\ when = "call"
    /\ item.name = "test_extract_calories"
    /\ item.callspec # None
    /\ Val(item.callspec).id # ""
    /\ Val(item.callspec).provider # EmptyMap
    /\ item.repeated_summary # None

recorded_result(results, item) ==
    put(results, Val(item.callspec).id,
        put(Get(results, Val(item.callspec).id, EmptyMap),
            provider_name(Val(item.callspec).provider),
            [passed |-> Val(item.repeated_summary)[1],
             total |-> Val(item.repeated_summary)[2]]))
recorded_timing(timings, item) ==
    IF item.timing_data = None THEN timings
    ELSE put(timings, Val(item.callspec).id,
             put(Get(timings, Val(item.callspec).id, EmptyMap),
                 provider_name(Val(item.callspec).provider),
                 Val(item.timing_data)))

\* Lines 56-58: the columns and the rows of the matrix.
report_providers(results) == sorted_names(UNION {DOMAIN results[id] : id \in DOMAIN results})
report_test_ids(results) == sorted_ids(DOMAIN results)

\* Variant of cell_text: a cell always shows the two counts.
cell_text_without_placeholder(passed, total) ==
    <<" ">> \o numeral(passed) \o <<"/">> \o numeral(total)

\* Lines 79-82: the text of a cell.
cell_text(passed, total) ==
    IF total > 0 THEN <<" ">> \o numeral(passed) \o <<"/">> \o numeral(total)
    ELSE <<" ", "-", " ">>
cell_of(result) == cell_text(Get(result, "passed", 0), Get(result, "total", 0))
cell(test_results, provider) == cell_of(Get(test_results, provider, EmptyMap))

\* Lines 68-84: the header, the separator and the data rows.
header(providers) == <<"Test Case">> \o [j \in 1..Len(providers) |-> providers[j]]
separator(providers) == [j \in 1..(Len(providers) + 1) |-> "---"]
data_row(results, test_id, providers) ==
    [test_id |-> test_id,
     cells |-> [j \in 1..Len(providers) |-> cell(results[test_id], providers[j])]]
data_rows(results, test_ids, providers) ==
    [i \in 1..Len(test_ids) |-> data_row(results, test_ids[i], providers)]

\* Lines 87-110: the timing section, one row per provider that has samples,
\* over the samples of the provider under every test id.
RECURSIVE all_timings(_, _, _, _)
all_timings(timings, test_ids, provider, i) ==
    IF i > Len(test_ids) THEN <<>>
    ELSE Get(Get(timings, test_ids[i], EmptyMap), provider, <<>>)
         \o all_timings(timings, test_ids, provider, i + 1)
any_timing(timings) == \E id \in DOMAIN timings : timings[id] # EmptyMap

\* Lines 103-107: the statistics of the samples of a provider, each the exact
\* quotient num / den of the value the functions compute. The samples are
\* whole numbers of seconds.
Fraction(num, den) == [num |-> num, den |-> den]
RECURSIVE sum(_)
sum(samples) == IF samples = <<>> THEN 0 ELSE Head(samples) + sum(Tail(samples))
without(samples, k) == SubSeq(samples, 1, k - 1) \o SubSeq(samples, k + 1, Len(samples))
smallest(samples) ==
    CHOOSE k \in 1..Len(samples) : \A j \in 1..Len(samples) : samples[k] <= samples[j]
RECURSIVE sorted_samples(_)
sorted_samples(samples) ==
    IF samples = <<>> THEN <<>>
    ELSE <<samples[smallest(samples)]>>
         \o sorted_samples(without(samples, smallest(samples)))
min_time(samples) == Fraction(sorted_samples(samples)[1], 1)
max_time(samples) == Fraction(sorted_samples(samples)[Len(samples)], 1)
\* statistics.mean: the exact sum over the number of samples.
mean(samples) == Fraction(sum(samples), Len(samples))
\* statistics.median: the middle sample, or the mean of the two in the middle.
median_of(data) ==
    IF Len(data) % 2 = 1 THEN Fraction(data[(Len(data) + 1) \div 2], 1)
    ELSE Fraction(data[Len(data) \div 2] + data[Len(data) \div 2 + 1], 2)
median(samples) == median_of(sorted_samples(samples))
\* np.percentile(a, q), method 'linear': the value at position (n - 1) * q / 100
\* of the sorted samples, counted from 0, interpolated between its neighbours.
below(data, q) == ((Len(data) - 1) * q) \div 100 + 1
above(data, q) == IF below(data, q) < Len(data) THEN below(data, q) + 1 ELSE Len(data)
percentile_of(data, q) ==
    Fraction(100 * data[below(data, q)]
                + (((Len(data) - 1) * q) % 100) * (data[above(data, q)] - data[below(data, q)]),
             100)
percentile(samples, q) == percentile_of(sorted_samples(samples), q)

\* f"{x:.3f}": the decimal text of x rounded to three places, to the even
\* neighbour when x is half way between two.
round_half_even(n, d) ==
    IF 2 * (n % d) > d \/ (2 * (n % d) = d /\ (n \div d) % 2 = 1)
    THEN n \div d + 1 ELSE n \div d
places(thousandths) ==
    numeral(thousandths \div 1000)
    \o <<".", Digits[((thousandths \div 100) % 10) + 1],
         Digits[((thousandths \div 10) % 10) + 1], Digits[(thousandths % 10) + 1]>>
format_3f(x) == places(round_half_even(1000 * x.num, x.den))

\* Lines 103-110: the row of a provider.
timing_row(provider, samples) ==
    [provider |-> provider,
     min |-> format_3f(min_time(samples)),
     max |-> format_3f(max_time(samples)),
     avg |-> format_3f(mean(samples)),
     median |-> format_3f(median(samples)),
     p98 |-> format_3f(percentile(samples, 98))]
RECURSIVE timing_rows(_, _, _, _)
timing_rows(timings, test_ids, providers, j) ==
    IF j > Len(providers) THEN <<>>
    ELSE (IF all_timings(timings, test_ids, providers[j], 1) = <<>> THEN <<>>
          ELSE <<timing_row(providers[j],
                            all_timings(timings, test_ids, providers[j], 1))>>)
         \o timing_rows(timings, test_ids, providers, j + 1)
timing_section(timings, test_ids, providers) ==
    IF any_timing(timings) THEN Some(timing_rows(timings, test_ids, providers, 1))
    ELSE None
\* Line 99: TIMING_RESULTS[test_id] makes an entry for a test id without one.
timings_read(timings, test_ids) ==
    IF any_timing(timings)
    THEN [id \in DOMAIN timings \cup {test_ids[i] : i \in 1..Len(test_ids)} |->
            Get(timings, id, EmptyMap)]
    ELSE timings

report(results, timings, test_ids, providers) ==
    [header |-> header(providers),
     separator |-> separator(providers),
     rows |-> data_rows(results, test_ids, providers),
     timing |-> timing_section(timings, test_ids, providers)]

\* Variant of written: the file is written whether or not there is a test id.
written_always(test_ids, text) == Some(text)

\* Lines 113-117: the file is written if there is a test id.
written(test_ids, text) == IF test_ids # <<>> THEN Some(text) ELSE None

\* Lines 15-39: pytest calls the hook with the report of a phase of an item;
\* the report of the call phase is that of the item's execution.
MakeReport(item, when) ==
    /\ pc = "session"
    /\ IF records(item, when)
       THEN /\ TEST_RESULTS' = recorded_result(TEST_RESULTS, item)
            /\ TIMING_RESULTS' = recorded_timing(TIMING_RESULTS, item)
       ELSE UNCHANGED <<TEST_RESULTS, TIMING_RESULTS>>
    /\ called' = IF when = "call" THEN called \cup {item} ELSE called
    /\ UNCHANGED <<fsVars, pc, PROVIDERS, EVALUATION_CASES, importError, items,
                   runVars, eqVars, numVars, reportFile>>

\* Lines 42-117: pytest_sessionfinish writes the report if there is a test id.
SessionFinish ==
    /\ pc = "session"
    /\ reportFile' =
        written(report_test_ids(TEST_RESULTS),
                report(TEST_RESULTS, TIMING_RESULTS, report_test_ids(TEST_RESULTS),
                       report_providers(TEST_RESULTS)))
    /\ TIMING_RESULTS' = timings_read(TIMING_RESULTS, report_test_ids(TEST_RESULTS))
    /\ pc' = "finished"
    /\ UNCHANGED <<fsVars, PROVIDERS, EVALUATION_CASES, importError, items,
                   runVars, eqVars, numVars, TEST_RESULTS, called>>

\* The items of a session: test_extract_calories for a test id and a provider,
\* with the summary of its repetitions and their durations; and items and
\* phases for which the hook records nothing.
MaxRecorded == 3

LoadedProvider(model, api_base, api_key) ==
    [k \in {"model", "extra"} \cup (IF api_base = "" THEN {} ELSE {"api_base"})
           \cup (IF api_key = "" THEN {} ELSE {"api_key"}) |->
        IF k = "model" THEN Some(model)
        ELSE IF k = "api_base" THEN Some(api_base)
        ELSE IF k = "api_key" THEN Some(api_key)
        ELSE Some(EmptyMap)]
ReportProviders ==
    {LoadedProvider("m1", "", ""), LoadedProvider("m1", "", "secret"), LoadedProvider("m1", "http://host", ""),
     LoadedProvider("m2", "", "")}
Summaries == {<<0, 1>>, <<1, 2>>, <<2, 2>>}
\* The durations attached to an item, in seconds: none for the summary 0/1,
\* one for each of the two repetitions of the others.
Durations(summary) ==
    IF summary = <<0, 1>> THEN None
    ELSE IF summary = <<1, 2>> THEN Some(<<1, 3>>)
    ELSE Some(<<4, 2>>)
Item(name, callspec, repeated_summary, timing_data) ==
    [name |-> name, callspec |-> callspec, repeated_summary |-> repeated_summary,
     timing_data |-> timing_data]
RecordedItems ==
    {Item("test_extract_calories", Some([id |-> id, provider |-> provider]),
          Some(summary), Durations(summary)) :
        id \in {"c1", "c2"}, provider \in ReportProviders, summary \in Summaries}
OneItem ==
    Item("test_extract_calories", Some([id |-> "c1", provider |-> LoadedProvider("m2", "", "")]),
         Some(<<1, 1>>), None)
IgnoredItems ==
    {[OneItem EXCEPT !.name = "test_equality_passes_with_identical_dicts"],
     [OneItem EXCEPT !.callspec = None],
     [OneItem EXCEPT !.callspec = Some([id |-> "", provider |-> LoadedProvider("m2", "", "")])],
     [OneItem EXCEPT !.callspec = Some([id |-> "c1", provider |-> EmptyMap])],
     [OneItem EXCEPT !.repeated_summary = None]}
Recorded(results) == UNION {{<<id, name>> : name \in DOMAIN results[id]} : id \in DOMAIN results}

InitSessionReport ==
    /\ pc = "session"
    /\ providerFS = [f \in ProviderPaths |-> None]
    /\ evaluation_path = [kind |-> "dir", file |-> 0, yaml |-> FALSE]
    /\ yamlFS = [f \in YamlPaths |-> None]
    /\ PROVIDERS = <<>>
    /\ InitRest

\* pytest runs an item once: the call phase of an item is reported once.
Run(item) == \E c \in called : c.name = item.name /\ c.callspec = item.callspec

NextReport ==
    \/ \E item \in RecordedItems \cup IgnoredItems, when \in {"setup", "call", "teardown"} :
        /\ Cardinality(called) < MaxRecorded
        /\ when = "call" => ~Run(item)
        /\ MakeReport(item, when)
    \/ SessionFinish

SpecReport == InitSessionReport /\ [][NextReport]_vars

----------------------------------------------------------------------------
\* Properties of the report.

\* The report that was written: the test ids of its data rows, its provider
\* columns, and the cell of a row under a column.
Finished == pc = "finished"
ReportWritten == Finished /\ reportFile # None
Matrix == Val(reportFile)
RowIds == [i \in 1..Len(Matrix.rows) |-> Matrix.rows[i].test_id]
Columns == Tail(Matrix.header)
CellAt(i, j) == Matrix.rows[i].cells[j]
\* What was recorded: the test ids, the provider names, and the pairs.
RecordedIds == DOMAIN TEST_RESULTS
RecordedNames == UNION {DOMAIN TEST_RESULTS[id] : id \in DOMAIN TEST_RESULTS}
RecordedPairs == Recorded(TEST_RESULTS)
\* The display identity of a provider: its model, followed by ' on ' and its
\* endpoint when it has one.
Identity(provider) ==
    IF "api_base" \in DOMAIN provider
    THEN <<Val(provider["model"]), " on ", Val(provider["api_base"])>>
    ELSE <<Val(provider["model"])>>
Shown(result) == <<" ">> \o numeral(result.passed) \o <<"/">> \o numeral(result.total)
Placeholder == <<" ", "-", " ">>
Elements(seq) == {seq[i] : i \in 1..Len(seq)}

C20_ReportOnlyOfRecordedResults ==
    Finished =>
        IF RecordedPairs = {} THEN reportFile = None
        ELSE /\ reportFile # None
             /\ Len(Matrix.rows) = Cardinality(RecordedIds)
             /\ Len(Matrix.header) - 1 = Cardinality(RecordedNames)

\* C20 happens: three results of two cases and two providers were recorded,
\* and the report has two data rows and two provider columns.
C20_Witness ==
    /\ Finished
    /\ Cardinality(RecordedPairs) = 3
    /\ Cardinality(RecordedIds) = 2
    /\ Cardinality(RecordedNames) = 2
    /\ reportFile # None
    /\ Len(Matrix.rows) = 2
    /\ Len(Matrix.header) = 3

\* The pairs that were attempted: the test_extract_calories items of a case
\* and a provider whose call phase was reported.
Attempted ==
    {item \in called :
        /\ item.name = "test_extract_calories"
        /\ item.callspec # None
        /\ Val(item.callspec).id # ""
        /\ Val(item.callspec).provider # EmptyMap}
CaseOf(item) == Val(item.callspec).id
ProviderOf(item) == Val(item.callspec).provider
\* The cell of the pair of an item shows counts, and those of the item's
\* summary when it has one.
ShowsCount(item, i, j) ==
    /\ CellAt(i, j) # Placeholder
    /\ item.repeated_summary # None =>
        CellAt(i, j) = Shown([passed |-> Val(item.repeated_summary)[1],
                              total |-> Val(item.repeated_summary)[2]])

\* C21: after any sequence of test executions, every (case, provider) pair
\* whose test was executed has a cell in the matrix of the final report, in
\* the row of the case and the column of the provider, and the cell shows the
\* pair's passed/total count, never the placeholder.
C21_AttemptedPairsShown ==
    Finished =>
        \A item \in Attempted :
            /\ ReportWritten
            /\ \E i \in 1..Len(RowIds), j \in 1..Len(Columns) :
                /\ RowIds[i] = CaseOf(item)
                /\ Columns[j] = Identity(ProviderOf(item))
                /\ ShowsCount(item, i, j)

\* The timing table of the report, and the duration samples of the executed
\* items of a provider column that came with a summary and with durations.
TimingTable == Val(Matrix.timing)
TableWritten == ReportWritten /\ Matrix.timing # None
Timed(column) ==
    {item \in Attempted :
        /\ item.repeated_summary # None
        /\ item.timing_data # None
        /\ Identity(ProviderOf(item)) = column}
RECURSIVE SamplesOf(_)
SamplesOf(timed) ==
    IF timed = {} THEN <<>>
    ELSE LET item == CHOOSE x \in timed : TRUE
         IN  Val(item.timing_data) \o SamplesOf(timed \ {item})
RowsOf(column) == {k \in 1..Len(TimingTable) : TimingTable[k].provider = column}

\* C22: when the timing table is written it has exactly one row for every
\* provider column of the matrix, and the minimum, maximum, mean, median and
\* 98th percentile of a row are those of all the duration samples recorded
\* for that provider across every case, each sample counted once.
C22_TimingRowPerProvider ==
    TableWritten =>
        /\ \A j \in 1..Len(Columns) : Cardinality(RowsOf(Columns[j])) = 1
        /\ \A k \in 1..Len(TimingTable) :
            /\ TimingTable[k].provider \in Elements(Columns)
            /\ TimingTable[k] =
                timing_row(TimingTable[k].provider, SamplesOf(Timed(TimingTable[k].provider)))

---------------------------------------------------------------------------
(* The two loaders of evaluation cases, on the same folders *)

\* Line 231 of the nutrition tests: EVALUATION_CASES = load_evaluation_cases()
\* at the import of that module.
NutritionLoadEvaluationCases ==
    /\ pc = "nutrition_load_cases"
    /\ \E last \in last_paths(yamlFS) :
        LET r == nutrition_load_evaluation_cases(evaluation_path, yamlFS, last)
        IN  IF r.ok
            THEN /\ EVALUATION_CASES' = r.val
                 /\ pc' = "nutrition_parametrize"
                 /\ UNCHANGED importError
            ELSE /\ pc' = "nutrition_aborted"
                 /\ importError' = Some(r)
                 /\ UNCHANGED EVALUATION_CASES
    /\ UNCHANGED <<fsVars, PROVIDERS, items, runVars, eqVars, numVars, reportVars>>

\* The documents of a file of the folder: absent, without a case, with one
\* case, with two cases.
NamedCase(id) == Case(id, OneStep)
FolderDocs ==
    {None, Some(Suite(<<>>)), Some(Suite(<<NamedCase("c1")>>)),
     Some(Suite(<<NamedCase("c3"), NamedCase("c2")>>))}

\* The import of either test module reaches its call of load_evaluation_cases
\* on a folder of up to three yaml files, or on a location that does not exist.
InitLoaders ==
    /\ pc \in {"load_cases", "nutrition_load_cases"}
    /\ InitRest
    /\ providerFS = [f \in ProviderPaths |-> IF f = 1 THEN Some(ProviderM2) ELSE None]
    /\ PROVIDERS = load_providers(providerFS, <<1>>, 1).val
    /\ \/ /\ evaluation_path = [kind |-> "dir", file |-> 0, yaml |-> FALSE]
          /\ yamlFS \in [FolderPaths -> FolderDocs]
       \/ /\ evaluation_path = [kind |-> "missing", file |-> 0, yaml |-> FALSE]
          /\ yamlFS = [f \in FolderPaths |-> None]

NextLoaders ==
    \/ LoadEvaluationCases
    \/ NutritionLoadEvaluationCases

SpecLoaders == InitLoaders /\ [][NextLoaders]_vars

---------------------------------------------------------------------------
\* Properties of the two loaders.

\* A loader has ended, by returning or by raising.
LoaderReturned == pc \in {"parametrize", "nutrition_parametrize"}
LoaderEnded == LoaderReturned \/ pc \in {"aborted", "nutrition_aborted"}
\* The yaml files of the evaluation location, and their case definitions in
\* file order and then declaration order.
FoundFiles == {f \in DOMAIN yamlFS : yamlFS[f] # None}
FoundCases == CasesOf(sorted(FoundFiles), 1)
DeclaredIds == [j \in 1..Len(FoundCases) |-> Val(FoundCases[j].case["id"])]
LoadedIds == [j \in 1..Len(EVALUATION_CASES) |-> EVALUATION_CASES[j].id]
\* An error a loader raises itself, with a message that says what is wrong.
DescriptiveLoadError(error) == error.type \in {"RuntimeError", "ValueError", "FileNotFoundError"}

\* C23: each of the two load_evaluation_cases returns the cases of every yaml
\* file of the evaluation location, ordered by file and then by declaration
\* within the file, none dropped; on a location without yaml files it raises
\* a descriptive load error.
C23_EveryFileLoadedInOrder ==
    LoaderEnded =>
        IF FoundFiles = {}
        THEN importError # None /\ DescriptiveLoadError(Val(importError))
        ELSE LoaderReturned /\ LoadedIds = DeclaredIds

============================================================================
